---- MODULE Spec2Model ----
(***************************************************************************)
(* A model of package aurora (src/aurora.go, first package in the file):   *)
(* the Level Registry (symbols, colors, mu) and the Notifier with its emit *)
(* operations, as goroutines calling into the package concurrently.        *)
(*                                                                         *)
(* Strings are sequences of one-rune strings.  A rune outside ASCII is     *)
(* written by its code point ("U+2714"), a newline as "\n".  A sink is the *)
(* sequence of the Write calls it received, each tagged with the client    *)
(* call that made it.                                                      *)
(***************************************************************************)
EXTENDS Integers, Sequences, FiniteSets, TLC

(***************************************************************************)
(* Bounds of the model.                                                    *)
(***************************************************************************)
NThreads == 2
MaxCalls == 2
MaxNotifiers == 3
MaxFamily == 2
SeqCalls == 1
RegCalls == 2
MaxValues == 5

Threads == 1..NThreads
MainThread == CHOOSE t \in Threads : \A u \in Threads : t <= u

(***************************************************************************)
(* LogLevel and the built-in tables.                                       *)
(***************************************************************************)
DebugLevel == 0
InfoLevel == 1
NoticeLevel == 2
WarnLevel == 3
ErrorLevel == 4
AlertLevel == 5
CriticalLevel == 6
NoLevel == 7

BuiltinLevels == DebugLevel..NoLevel

\* A LogLevel is an int: a value outside the enumeration is a legal argument.
UnknownLevel == NoLevel + 1

defaultSymbols ==
  [l \in BuiltinLevels |->
     CASE l = AlertLevel    -> <<"[", "U+272D", "]">>
       [] l = InfoLevel     -> <<"[", "U+2714", "]">>
       [] l = ErrorLevel    -> <<"[", "U+2718", "]">>
       [] l = NoticeLevel   -> <<"[", "U+2691", "]">>
       [] l = DebugLevel    -> <<"[", "U+29F3", "]">>
       [] l = WarnLevel     -> <<"[", "U+26A0", "]">>
       [] l = CriticalLevel -> <<"[", "U+203C", "]">>
       [] l = NoLevel       -> <<" ">>]

\* A *color.Color is named by its attribute; Nil is the nil pointer.
Nil == "nil"

defaultColors ==
  [l \in BuiltinLevels |->
     CASE l = AlertLevel    -> "FgHiBlue"
       [] l = InfoLevel     -> "FgHiGreen"
       [] l = ErrorLevel    -> "FgHiRed"
       [] l = NoticeLevel   -> "FgHiYellow"
       [] l = DebugLevel    -> "FgHiCyan"
       [] l = WarnLevel     -> "FgHiMagenta"
       [] l = CriticalLevel -> "FgHiWhite"
       [] l = NoLevel       -> "FgHiBlack"]

IconSuccess == <<"U+2713">>
IconError == <<"U+2717">>

IndentNone == <<>>
IndentSpace2 == <<" ", " ">>

(***************************************************************************)
(* fmt.Sprintf on string arguments.  After '%' the model's inputs hold no  *)
(* flag, width or precision rune, so the rune after '%' is the verb.       *)
(***************************************************************************)
percentBangString == <<"%", "!">>
missingString == <<"(", "M", "I", "S", "S", "I", "N", "G", ")">>
noVerbString == <<"%", "!", "(", "N", "O", "V", "E", "R", "B", ")">>
extraString == <<"%", "!", "(", "E", "X", "T", "R", "A", " ">>
stringEq == <<"s", "t", "r", "i", "n", "g", "=">>

\* The verbs that print a string argument as it is.
StringVerbs == {"s", "v"}

RECURSIVE extraArgs(_, _)
extraArgs(a, argNum) ==
  IF argNum > Len(a) THEN <<>>
  ELSE stringEq \o a[argNum]
       \o (IF argNum < Len(a) THEN <<",", " ">> ELSE <<>>)
       \o extraArgs(a, argNum + 1)

\* argNum is the index of the next argument to use (1-based).
RECURSIVE doPrintf(_, _, _)
doPrintf(format, a, argNum) ==
  IF format = <<>>
  THEN IF argNum <= Len(a)
       THEN extraString \o extraArgs(a, argNum) \o <<")">>
       ELSE <<>>
  ELSE IF Head(format) # "%"
  THEN <<Head(format)>> \o doPrintf(Tail(format), a, argNum)
  ELSE IF Len(format) = 1
  THEN noVerbString \o doPrintf(<<>>, a, argNum)
  ELSE LET verb == format[2]
           rest == SubSeq(format, 3, Len(format))
       IN  IF verb = "%"
           THEN <<"%">> \o doPrintf(rest, a, argNum)
           ELSE IF argNum > Len(a)
           THEN percentBangString \o <<verb>> \o missingString
                \o doPrintf(rest, a, argNum)
           ELSE IF verb \in StringVerbs
           THEN a[argNum] \o doPrintf(rest, a, argNum + 1)
           ELSE percentBangString \o <<verb>> \o <<"(">> \o stringEq
                \o a[argNum] \o <<")">> \o doPrintf(rest, a, argNum + 1)

Sprintf(format, a) == doPrintf(format, a, 1)

(***************************************************************************)
(* The state.                                                              *)
(***************************************************************************)
VARIABLES
  notifiers,  \* the Notifier values made so far: [mu, output, prefix], each
              \* with the derivation that made it (root, from, arg)
  Default,    \* the package variable Default: the Notifier it refers to
  locked,     \* locked[m]: the state of the sync.Mutex m
  sinks,      \* sinks[w]: the Write calls the io.Writer w has received
  symbols,    \* the package map symbols
  colors,     \* the package map colors
  mu,         \* the package sync.RWMutex: TRUE while write-locked
  NoColor,    \* color.NoColor
  stack,      \* stack[t]: the call stack of goroutine t, innermost frame last
  panicking,  \* panicking[t]: whether a panic is unwinding t, and its value
  recovered,  \* recovered[t]: the panic values the client of t has recovered
  hist,       \* hist[t]: the calls the client of t has made, in order
  nfmt,       \* how often a client argument has been formatted
  fatal,      \* the runtime has thrown a fatal error: the process is dead
  arrays,     \* arrays[a]: the backing array a of attribute slices, as long
              \* as its capacity
  Values      \* the Values made so far, in order: [value, attrs], attrs the
              \* slice header [array, len, cap]

vars == <<notifiers, Default, locked, sinks, symbols, colors, mu, NoColor,
          stack, panicking, recovered, hist, nfmt, fatal, arrays, Values>>

registry == <<symbols, colors, mu>>
styled == <<arrays, Values>>
heap == <<notifiers, Default, styled>>

Sinks == {"stdout", "buf"}

(***************************************************************************)
(* Notifier: construction and derivation.                                  *)
(***************************************************************************)
\* root names the New call a Notifier descends from; derived, from and arg
\* record the With call that made it (its receiver's prefix, its argument).
Notifier(m, w, prefix, root, derived, from, arg) ==
  [mu |-> m, output |-> w, prefix |-> prefix,
   root |-> root, derived |-> derived, from |-> from, arg |-> arg]

\* &sync.Mutex{}: a mutex no other Notifier has.
FreshMutex == Len(locked) + 1

\* A New that gives every Notifier the mutex of the first one.
New_SharedMutex(w) ==
  Notifier(1, IF w = Nil THEN "stdout" ELSE w, <<>>,
           FreshMutex, FALSE, <<>>, <<>>)

\* New(w): a fresh mutex, the given writer (os.Stdout for nil), no prefix.
New(w) ==
  Notifier(FreshMutex, IF w = Nil THEN "stdout" ELSE w, <<>>,
           FreshMutex, FALSE, <<>>, <<>>)

\* A prefix that is extended whenever the argument is not empty.
WithPrefix_TestsArgument(n, prefix) ==
  IF prefix # <<>>
  THEN Sprintf(<<"%", "s", " ", "%", "s">>, <<n.prefix, prefix>>)
  ELSE prefix

WithPrefix(n, prefix) ==
  IF n.prefix # <<>>
  THEN Sprintf(<<"%", "s", " ", "%", "s">>, <<n.prefix, prefix>>)
  ELSE prefix

\* A With that gives the derived Notifier a mutex of its own.
With_OwnMutex(n, prefix) ==
  Notifier(FreshMutex, n.output, WithPrefix(n, prefix), n.root, TRUE, n.prefix, prefix)

\* n.With(prefix): the receiver's mutex and writer, the extended prefix.
With(n, prefix) ==
  Notifier(n.mu, n.output, WithPrefix(n, prefix), n.root, TRUE, n.prefix, prefix)

\* A formatWithPrefix that leaves out the space after the bracket.
formatWithPrefix_NoSpace(n, msg) ==
  IF n.prefix # <<>>
  THEN Sprintf(<<"[", "%", "s", "]", "%", "s">>, <<n.prefix, msg>>)
  ELSE msg

formatWithPrefix(n, msg) ==
  IF n.prefix # <<>>
  THEN Sprintf(<<"[", "%", "s", "]", " ", "%", "s">>, <<n.prefix, msg>>)
  ELSE msg

(***************************************************************************)
(* The registry lookups of an emit operation: a Go map read, which yields  *)
(* the zero value for an absent key.                                       *)
(***************************************************************************)
\* A lookup in a copy of the symbols that is the built-in one.
SymbolOf_OwnCopy(level) ==
  IF level \in DOMAIN defaultSymbols THEN defaultSymbols[level] ELSE <<>>

SymbolOf(level) == IF level \in DOMAIN symbols THEN symbols[level] ELSE <<>>
ColorOf(level) == IF level \in DOMAIN colors THEN colors[level] ELSE Nil

\* c.format() and c.unformat() of the style renderer.
ColorFormat(c) == <<"ESC[", c, "m">>
ColorUnformat(c) == <<"ESC[", "0", "m">>

(***************************************************************************)
(* Call stacks.                                                            *)
(***************************************************************************)
Frame(op, n, level, format, args) ==
  [op |-> op, pc |-> "lock", n |-> n, level |-> level, format |-> format,
   args |-> args, cond |-> TRUE, title |-> <<>>, indent |-> <<>>,
   values |-> <<>>, i |-> 1, symbol |-> <<>>, line |-> <<>>, c |-> Nil,
   msg |-> <<>>, todo |-> {}, deferred |-> FALSE, count |-> 0, fn |-> <<>>,
   invoked |-> 0, pkg |-> FALSE, dflt |-> n, does |-> "return", inner |-> n]

Busy(t) == stack[t] # <<>>
Top(t) == stack[t][Len(stack[t])]
SetTop(t, f) == [stack EXCEPT ![t] = [@ EXCEPT ![Len(@)] = f]]
Pop(t) == [stack EXCEPT ![t] = SubSeq(@, 1, Len(@) - 1)]
\* The innermost frame, now caller, calls the operation of frame f.
CallFrom(t, caller, f) ==
  [stack EXCEPT ![t] = Append([@ EXCEPT ![Len(@)] = caller], f)]

At(t, ops, pc) ==
  /\ ~fatal
  /\ Busy(t)
  /\ ~panicking[t].on
  /\ Top(t).op \in ops
  /\ Top(t).pc = pc

RECURSIVE SumLen(_, _)
SumLen(f, S) ==
  IF S = {} THEN 0
  ELSE LET x == CHOOSE y \in S : TRUE IN Len(f[x]) + SumLen(f, S \ {x})

NCalls == SumLen(hist, Threads)

\* The client of goroutine t calls the operation of frame f; the clients
\* make at most max calls in all.
Call(t, f, max) ==
  /\ ~fatal
  /\ ~Busy(t)
  /\ NCalls < max
  /\ stack' = [stack EXCEPT ![t] = <<f>>]
  /\ hist' = [hist EXCEPT ![t] = Append(@, f)]

\* A Write that goes to the writer of whatever Default refers to now.
Write_ThroughDefault(t, n, data) ==
  sinks' = [sinks EXCEPT ![Default.output] =
              Append(@, [by |-> <<t, Len(hist[t])>>, data |-> data])]

\* One Write call on the writer of Notifier n by goroutine t.
Write(t, n, data) ==
  sinks' = [sinks EXCEPT ![n.output] =
              Append(@, [by |-> <<t, Len(hist[t])>>, data |-> data])]

(***************************************************************************)
(* Inlinef, Logf, Printf.                                                  *)
(***************************************************************************)
EmitOps == {"Inlinef", "Logf", "Printf"}

\* time.Now().Format("2006-01-02 03:04:05 PM") at two instants.
Timestamps ==
  { <<"2", "0", "2", "6", "-", "1", "1", "-", "0", "1", " ",
      "0", "5", ":", "5", "1", ":", "4", "5", " ", "A", "M">>,
    <<"2", "0", "2", "6", "-", "1", "1", "-", "0", "1", " ",
      "1", "1", ":", "5", "9", ":", "5", "9", " ", "P", "M">> }

\* A Logf line that begins with the timestamp.
EmitLine_TimestampFirst(op, symbol, timestamp, msg) ==
  CASE op = "Inlinef" ->
         Sprintf(<<"%", "s", " ", "%", "s", "\n">>, <<symbol, msg>>)
    [] op = "Logf" ->
         Sprintf(<<"%", "s", " ", "%", "s", " ", "%", "s", "\n">>,
                 <<timestamp, symbol, msg>>)
    [] op = "Printf" ->
         Sprintf(<<"%", "s", "\n">>, <<msg>>)

EmitLine(op, symbol, timestamp, msg) ==
  CASE op = "Inlinef" ->
         Sprintf(<<"%", "s", " ", "%", "s", "\n">>, <<symbol, msg>>)
    [] op = "Logf" ->
         Sprintf(<<"%", "s", " ", "%", "s", " ", "%", "s", "\n">>,
                 <<symbol, timestamp, msg>>)
    [] op = "Printf" ->
         Sprintf(<<"%", "s", "\n">>, <<msg>>)

\* A Lock that does not wait.
MutexFree_NoWait(m) == TRUE

\* The mutex guard of n.mu.Lock(): Lock returns once the mutex is free.
MutexFree(m) == ~locked[m]

\* The operations that end in colors[level].Fprint(n.output, text).
FprintOps == EmitOps \cup {"Func", "Format", "Line"}

LockOps == FprintOps \cup {"JSONIndent"}

\* The statement after "n.mu.Lock(); defer n.mu.Unlock()".
AfterLock(f) ==
  IF f.op \in EmitOps THEN "compose"
  ELSE IF f.op \in {"Func", "Format"} THEN "invoke"
  ELSE IF f.op = "Line" THEN "repeat"
  ELSE IF f.values = <<>> THEN "final" ELSE "value"

\* n.mu.Lock(); defer n.mu.Unlock()
MuLock(t) ==
  /\ At(t, LockOps, "lock")
  /\ MutexFree(Top(t).n.mu)
  /\ locked' = [locked EXCEPT ![Top(t).n.mu] = TRUE]
  /\ stack' = SetTop(t, [Top(t) EXCEPT !.pc = AfterLock(Top(t)), !.deferred = TRUE])
  /\ UNCHANGED <<heap, sinks, registry, NoColor, panicking, recovered, hist,
                 nfmt, fatal>>

\* symbol := symbols[level]; msg := Sprintf(format, args...);
\* msg = n.formatWithPrefix(msg); line := Sprintf(..., symbol, msg)
Compose(t) ==
  /\ At(t, EmitOps, "compose")
  /\ \E ts \in (IF Top(t).op = "Logf" THEN Timestamps ELSE {<<>>}) :
       LET f == Top(t)
           msg == formatWithPrefix(f.n, Sprintf(f.format, f.args))
           symbol == IF f.op = "Printf" THEN <<>> ELSE SymbolOf(f.level)
       IN  stack' = SetTop(t, [f EXCEPT !.pc = "fprint", !.symbol = symbol,
                                        !.line = EmitLine(f.op, symbol, ts, msg)])
  /\ nfmt' = nfmt + 1
  /\ UNCHANGED <<heap, locked, sinks, registry, NoColor, panicking, recovered,
                 hist, fatal>>

\* The runtime error of a nil pointer dereference, as a panic value.
NilDereference == <<"nil pointer dereference">>

NoPanic == [on |-> FALSE, value |-> <<>>]
PanicOf(v) == [on |-> TRUE, value |-> v]

\* colors[level].Fprint(n.output, line), first part: c.SetWriter(w).
\* SetWriter reads c.noColor, so a nil receiver is a nil pointer dereference.
SetWriter(t) ==
  /\ At(t, FprintOps, "fprint")
  /\ LET f == Top(t)
         c == ColorOf(f.level)
     IN  IF c = Nil
         THEN /\ panicking' = [panicking EXCEPT ![t] = PanicOf(NilDereference)]
              /\ UNCHANGED <<stack, sinks>>
         ELSE /\ stack' = SetTop(t, [f EXCEPT !.pc = "print", !.c = c])
              /\ IF NoColor THEN UNCHANGED sinks
                 ELSE Write(t, f.n, ColorFormat(c))
              /\ UNCHANGED panicking
  /\ UNCHANGED <<heap, locked, registry, NoColor, recovered, hist, nfmt, fatal>>

\* Fprint, second part: fmt.Fprint(w, line).
FprintLine(t) ==
  /\ At(t, FprintOps, "print")
  /\ Write(t, Top(t).n, Top(t).line)
  /\ stack' = SetTop(t, [Top(t) EXCEPT !.pc = IF NoColor THEN "unlock" ELSE "unset"])
  /\ UNCHANGED <<heap, locked, registry, NoColor, panicking, recovered, hist,
                 nfmt, fatal>>

\* Fprint, last part: the deferred c.UnsetWriter(w).
UnsetWriter(t) ==
  /\ At(t, FprintOps, "unset")
  /\ Write(t, Top(t).n, ColorUnformat(Top(t).c))
  /\ stack' = SetTop(t, [Top(t) EXCEPT !.pc = "unlock"])
  /\ UNCHANGED <<heap, locked, registry, NoColor, panicking, recovered, hist,
                 nfmt, fatal>>

\* The deferred n.mu.Unlock() and the return to the caller.
MuUnlock(t) ==
  /\ At(t, LockOps, "unlock")
  /\ locked' = [locked EXCEPT ![Top(t).n.mu] = FALSE]
  /\ stack' = Pop(t)
  /\ UNCHANGED <<heap, sinks, registry, NoColor, panicking, recovered, hist,
                 nfmt, fatal>>

(***************************************************************************)
(* The package configuration: SetSymbol, SetColor, ResetSymbols,           *)
(* ResetColors.  Each takes the write lock of mu for its whole body.  The  *)
(* emit operations read symbols and colors without taking mu.              *)
(***************************************************************************)
SetOps == {"SetSymbol", "SetColor"}
ResetOps == {"ResetSymbols", "ResetColors"}
RegistryOps == SetOps \cup ResetOps

\* m[k] = v on a Go map.
MapSet(m, k, v) == [x \in DOMAIN m \cup {k} |-> IF x = k THEN v ELSE m[x]]

\* mu.Lock(); defer mu.Unlock()
RegistryLock(t) ==
  /\ At(t, RegistryOps, "lock")
  /\ ~mu
  /\ mu' = TRUE
  /\ LET f == Top(t)
     IN  stack' = SetTop(t, IF f.op \in SetOps
                            THEN [f EXCEPT !.pc = "write"]
                            ELSE [f EXCEPT !.pc = "range",
                                           !.todo = IF f.op = "ResetSymbols"
                                                    THEN DOMAIN defaultSymbols
                                                    ELSE DOMAIN defaultColors])
  /\ UNCHANGED <<heap, locked, sinks, symbols, colors, NoColor, panicking,
                 recovered, hist, nfmt, fatal>>

\* A setter that reports the change through Default while it holds mu.
RegistryWrite_Reports(t) ==
  /\ At(t, SetOps, "write")
  /\ LET f == Top(t)
     IN  /\ IF f.op = "SetSymbol"
            THEN symbols' = MapSet(symbols, f.level, f.symbol) /\ UNCHANGED colors
            ELSE colors' = MapSet(colors, f.level, f.c) /\ UNCHANGED symbols
         /\ stack' = CallFrom(t, [f EXCEPT !.pc = "unlock"],
                              Frame("Inlinef", Default, InfoLevel, <<"s", "e", "t">>, <<>>))
  /\ UNCHANGED <<heap, locked, sinks, mu, NoColor, panicking, recovered, hist,
                 nfmt, fatal>>

\* symbols[level] = symbol, or colors[level] = color.
RegistryWrite(t) ==
  /\ At(t, SetOps, "write")
  /\ LET f == Top(t)
     IN  IF f.op = "SetSymbol"
         THEN symbols' = MapSet(symbols, f.level, f.symbol) /\ UNCHANGED colors
         ELSE colors' = MapSet(colors, f.level, f.c) /\ UNCHANGED symbols
  /\ stack' = SetTop(t, [Top(t) EXCEPT !.pc = "unlock"])
  /\ UNCHANGED <<heap, locked, sinks, mu, NoColor, panicking, recovered, hist,
                 nfmt, fatal>>

\* A reset that restores one entry and leaves the others as they are.
RegistryRange_OneRound(t) ==
  /\ At(t, ResetOps, "range")
  /\ \E k \in Top(t).todo :
       /\ IF Top(t).op = "ResetSymbols"
          THEN symbols' = MapSet(symbols, k, defaultSymbols[k]) /\ UNCHANGED colors
          ELSE colors' = MapSet(colors, k, defaultColors[k]) /\ UNCHANGED symbols
       /\ stack' = SetTop(t, [Top(t) EXCEPT !.todo = {}, !.pc = "unlock"])
  /\ UNCHANGED <<heap, locked, sinks, mu, NoColor, panicking, recovered, hist,
                 nfmt, fatal>>

\* One round of "for k, v := range defaultSymbols { symbols[k] = v }" (or
\* of the loop over defaultColors): the order of a range over a map is not
\* fixed.
RegistryRange(t) ==
  /\ At(t, ResetOps, "range")
  /\ \E k \in Top(t).todo :
       /\ IF Top(t).op = "ResetSymbols"
          THEN symbols' = MapSet(symbols, k, defaultSymbols[k]) /\ UNCHANGED colors
          ELSE colors' = MapSet(colors, k, defaultColors[k]) /\ UNCHANGED symbols
       /\ stack' = SetTop(t, [Top(t) EXCEPT
                                !.todo = @ \ {k},
                                !.pc = IF Top(t).todo = {k} THEN "unlock" ELSE "range"])
  /\ UNCHANGED <<heap, locked, sinks, mu, NoColor, panicking, recovered, hist,
                 nfmt, fatal>>

\* All the rounds of the loop at once.  Whatever the order of the rounds,
\* the loop ends with every key of the built-in map assigned; where no
\* other goroutine runs, nothing can observe the map in between.  Beside
\* other goroutines it stands for the loop where the property at issue is
\* about the locks and not about what a racing reader finds in the map; the
\* race of such a reader with the loop remains (RaceFatal).
RegistryRangeAll(t) ==
  /\ At(t, ResetOps, "range")
  /\ IF Top(t).op = "ResetSymbols"
     THEN /\ symbols' = [x \in DOMAIN symbols \cup DOMAIN defaultSymbols |->
                          IF x \in DOMAIN defaultSymbols
                          THEN defaultSymbols[x] ELSE symbols[x]]
          /\ UNCHANGED colors
     ELSE /\ colors' = [x \in DOMAIN colors \cup DOMAIN defaultColors |->
                         IF x \in DOMAIN defaultColors
                         THEN defaultColors[x] ELSE colors[x]]
          /\ UNCHANGED symbols
  /\ stack' = SetTop(t, [Top(t) EXCEPT !.todo = {}, !.pc = "unlock"])
  /\ UNCHANGED <<heap, locked, sinks, mu, NoColor, panicking, recovered, hist,
                 nfmt, fatal>>

\* The deferred mu.Unlock() and the return.
RegistryUnlock(t) ==
  /\ At(t, RegistryOps, "unlock")
  /\ mu' = FALSE
  /\ stack' = Pop(t)
  /\ UNCHANGED <<heap, locked, sinks, symbols, colors, NoColor, panicking,
                 recovered, hist, nfmt, fatal>>

\* Goroutine t is at a statement that reads, or that writes, the map.
ReadsMap(t, map) ==
  IF map = "symbols"
  THEN At(t, {"Inlinef", "Logf"}, "compose")
  ELSE At(t, FprintOps, "fprint")
WritesMap(t, map) ==
  IF map = "symbols"
  THEN At(t, {"SetSymbol"}, "write") \/ At(t, {"ResetSymbols"}, "range")
  ELSE At(t, {"SetColor"}, "write") \/ At(t, {"ResetColors"}, "range")

\* A read of a map that runs while another goroutine writes the map is a
\* data race.  The read may see the map before or after the write, which
\* the interleaving of the two statements gives, or the runtime may detect
\* it and throw "concurrent map read and map write", which ends the process.
RaceFatal(t) ==
  /\ \E map \in {"symbols", "colors"} :
       /\ ReadsMap(t, map)
       /\ \E u \in Threads \ {t} : WritesMap(u, map)
  /\ fatal' = TRUE
  /\ UNCHANGED <<heap, locked, sinks, registry, NoColor, stack, panicking,
                 recovered, hist, nfmt>>

(***************************************************************************)
(* If: if condition { n.Inlinef(level, format, args...) }.                 *)
(***************************************************************************)
\* An If that does not look at its condition.
IfTest_Always(t) ==
  /\ At(t, {"If"}, "test")
  /\ LET f == Top(t)
     IN  stack' = CallFrom(t, [f EXCEPT !.pc = "return"],
                           Frame("Inlinef", f.n, f.level, f.format, f.args))
  /\ UNCHANGED <<heap, locked, sinks, registry, NoColor, panicking, recovered,
                 hist, nfmt, fatal>>

IfTest(t) ==
  /\ At(t, {"If"}, "test")
  /\ LET f == Top(t)
     IN  IF f.cond
         THEN stack' = CallFrom(t, [f EXCEPT !.pc = "return"],
                                Frame("Inlinef", f.n, f.level, f.format, f.args))
         ELSE stack' = Pop(t)
  /\ UNCHANGED <<heap, locked, sinks, registry, NoColor, panicking, recovered,
                 hist, nfmt, fatal>>

\* An operation that only calls another returns when that one has returned.
Return(t) ==
  /\ At(t, {"If", "JSON", "JSONTitle", "Success", "Failure", "Br"}, "return")
  /\ stack' = Pop(t)
  /\ UNCHANGED <<heap, locked, sinks, registry, NoColor, panicking, recovered,
                 hist, nfmt, fatal>>

(***************************************************************************)
(* JSON, JSONTitle, JSONIndent.  A value is "map", the map {"key":         *)
(* "value"}, or "list", the slice [1], which the encoder accepts, or       *)
(* "chan", a channel, which it rejects.                                    *)
(***************************************************************************)
KeyValue == <<"\"", "k", "e", "y", "\"", ":", "\"", "v", "a", "l", "u", "e", "\"">>

UnsupportedType ==
  <<"j", "s", "o", "n", ":", " ", "u", "n", "s", "u", "p", "p", "o", "r", "t",
    "e", "d", " ", "t", "y", "p", "e", ":", " ", "c", "h", "a", "n", " ", "i",
    "n", "t">>

\* jsoncolor.MarshalIndent(v, "", indent): the encoding, or the error.
MarshalIndent(v, indent) ==
  IF v = "chan" THEN [err |-> UnsupportedType, data |-> <<>>]
  ELSE IF v = "list"
  THEN [err |-> <<>>,
        data |-> IF indent = <<>>
                 THEN <<"[", "1", "]">>
                 ELSE <<"[", "\n">> \o indent \o <<"1", "\n", "]">>]
  ELSE [err |-> <<>>,
        data |-> IF indent = <<>>
                 THEN <<"{">> \o KeyValue \o <<"}">>
                 ELSE <<"{", "\n">> \o indent \o KeyValue \o <<"\n", "}">>]

TitleFormat == <<"%", "s", ":", " ", "J", "S", "O", "N", " ", "U+21B4", "U+21B4">>
MarshalFailed ==
  <<"f", "a", "i", "l", "e", "d", " ", "t", "o", " ", "m", "a", "r", "s", "h",
    "a", "l", " ", "J", "S", "O", "N", ":", " ", "%", "v">>

JSONFrame(n, title, indent, values) ==
  [Frame("JSONIndent", n, NoLevel, <<>>, <<>>)
     EXCEPT !.pc = "title", !.title = title, !.indent = indent, !.values = values]

\* A JSONTitle that asks for no indentation.
JSONWrap_NoIndent(t) ==
  /\ At(t, {"JSON", "JSONTitle"}, "call")
  /\ LET f == Top(t)
     IN  stack' = CallFrom(t, [f EXCEPT !.pc = "return"],
                           IF f.op = "JSON"
                           THEN JSONFrame(f.n, <<>>, IndentNone, f.values)
                           ELSE JSONFrame(f.n, f.title, IndentNone, f.values))
  /\ UNCHANGED <<heap, locked, sinks, registry, NoColor, panicking, recovered,
                 hist, nfmt, fatal>>

\* JSON(values...) and JSONTitle(title, values...) call JSONIndent.
JSONWrap(t) ==
  /\ At(t, {"JSON", "JSONTitle"}, "call")
  /\ LET f == Top(t)
     IN  stack' = CallFrom(t, [f EXCEPT !.pc = "return"],
                           IF f.op = "JSON"
                           THEN JSONFrame(f.n, <<>>, IndentNone, f.values)
                           ELSE JSONFrame(f.n, f.title, IndentSpace2, f.values))
  /\ UNCHANGED <<heap, locked, sinks, registry, NoColor, panicking, recovered,
                 hist, nfmt, fatal>>

\* A JSONIndent that takes the lock before it emits the title line.
JSONTitleLine_UnderLock(t) ==
  /\ At(t, {"JSONIndent"}, "title")
  /\ MutexFree(Top(t).n.mu)
  /\ locked' = [locked EXCEPT ![Top(t).n.mu] = TRUE]
  /\ LET f == [Top(t) EXCEPT !.deferred = TRUE]
     IN  IF f.title # <<>>
         THEN stack' = CallFrom(t, [f EXCEPT !.pc = AfterLock(f)],
                                Frame("Inlinef", f.n, DebugLevel, TitleFormat,
                                      <<f.title>>))
         ELSE stack' = SetTop(t, [f EXCEPT !.pc = AfterLock(f)])
  /\ UNCHANGED <<heap, sinks, registry, NoColor, panicking, recovered, hist,
                 nfmt, fatal>>

\* if title != "" { n.Inlinef(DebugLevel, "%s: JSON ...", title) }
JSONTitleLine(t) ==
  /\ At(t, {"JSONIndent"}, "title")
  /\ LET f == Top(t)
     IN  IF f.title # <<>>
         THEN stack' = CallFrom(t, [f EXCEPT !.pc = "lock"],
                                Frame("Inlinef", f.n, DebugLevel, TitleFormat,
                                      <<f.title>>))
         ELSE stack' = SetTop(t, [f EXCEPT !.pc = "lock"])
  /\ UNCHANGED <<heap, locked, sinks, registry, NoColor, panicking, recovered,
                 hist, nfmt, fatal>>

\* The loop body up to the first Write: encode values[i]; on an error call
\* n.Logf(ErrorLevel, "failed to marshal JSON: %v", err) and continue,
\* otherwise n.output.Write(data).
JSONValue(t) ==
  /\ At(t, {"JSONIndent"}, "value")
  /\ LET f == Top(t)
         m == MarshalIndent(f.values[f.i], f.indent)
         next == IF f.i = Len(f.values) THEN "final" ELSE "value"
     IN  IF m.err # <<>>
         THEN /\ stack' = CallFrom(t, [f EXCEPT !.pc = next, !.i = f.i + 1],
                                   Frame("Logf", f.n, ErrorLevel, MarshalFailed,
                                         <<m.err>>))
              /\ UNCHANGED sinks
         ELSE /\ stack' = SetTop(t, [f EXCEPT !.pc = "newline"])
              /\ Write(t, f.n, m.data)
  /\ UNCHANGED <<heap, locked, registry, NoColor, panicking, recovered, hist,
                 nfmt, fatal>>

\* n.output.Write([]byte{'\n'}) after the data, and on to the next value.
JSONNewline(t) ==
  /\ At(t, {"JSONIndent"}, "newline")
  /\ LET f == Top(t)
     IN  stack' = SetTop(t, [f EXCEPT !.i = f.i + 1,
                                      !.pc = IF f.i = Len(f.values)
                                             THEN "final" ELSE "value"])
  /\ Write(t, Top(t).n, <<"\n">>)
  /\ UNCHANGED <<heap, locked, registry, NoColor, panicking, recovered, hist,
                 nfmt, fatal>>

\* n.output.Write([]byte{'\n'}) after the loop.
JSONFinal(t) ==
  /\ At(t, {"JSONIndent"}, "final")
  /\ stack' = SetTop(t, [Top(t) EXCEPT !.pc = "unlock"])
  /\ Write(t, Top(t).n, <<"\n">>)
  /\ UNCHANGED <<heap, locked, registry, NoColor, panicking, recovered, hist,
                 nfmt, fatal>>

(***************************************************************************)
(* Func: colors[level].Fprint(n.output, fn()) under the lock.  The         *)
(* arguments of Fprint are evaluated before Fprint is entered, so fn runs  *)
(* before the receiver colors[level] is used.                              *)
(***************************************************************************)
\* Format is the same with colors[NoLevel] and formatter(format, args...).
\* The function the caller supplies returns a string (does = "return"),
\* panics ("panic"), or calls Inlinef on the Notifier inner and then returns
\* its string ("emit").
SuppliedPanic == <<"supplied function panicked">>
SuppliedFormat == <<"i", "n", "n", "e", "r">>

\* A Func that lets go of the lock while the supplied function runs.
FuncInvoke_Released(t) ==
  /\ At(t, {"Func", "Format"}, "invoke")
  /\ Top(t).does = "emit"
  /\ locked' = [locked EXCEPT ![Top(t).n.mu] = FALSE]
  /\ stack' = CallFrom(t, [Top(t) EXCEPT !.pc = "result", !.invoked = @ + 1],
                       Frame("Inlinef", Top(t).inner, InfoLevel, SuppliedFormat, <<>>))
  /\ nfmt' = nfmt + 1
  /\ UNCHANGED <<heap, sinks, registry, NoColor, panicking, recovered, hist, fatal>>

FuncInvoke(t) ==
  /\ At(t, {"Func", "Format"}, "invoke")
  /\ LET f == Top(t)
     IN  CASE f.does = "return" ->
                /\ stack' = SetTop(t, [f EXCEPT !.pc = "fprint", !.line = f.fn,
                                                !.invoked = @ + 1])
                /\ UNCHANGED panicking
           [] f.does = "panic" ->
                /\ stack' = SetTop(t, [f EXCEPT !.invoked = @ + 1])
                /\ panicking' = [panicking EXCEPT ![t] = PanicOf(SuppliedPanic)]
           [] f.does = "emit" ->
                /\ stack' = CallFrom(t, [f EXCEPT !.pc = "result", !.invoked = @ + 1],
                                     Frame("Inlinef", f.inner, InfoLevel,
                                           SuppliedFormat, <<>>))
                /\ UNCHANGED panicking
  /\ nfmt' = nfmt + 1
  /\ UNCHANGED <<heap, locked, sinks, registry, NoColor, recovered, hist, fatal>>

\* The supplied function returns its string after its emission.
FuncResult(t) ==
  /\ At(t, {"Func", "Format"}, "result")
  /\ stack' = SetTop(t, [Top(t) EXCEPT !.pc = "fprint", !.line = Top(t).fn])
  /\ UNCHANGED <<heap, locked, sinks, registry, NoColor, panicking, recovered,
                 hist, nfmt, fatal>>

(***************************************************************************)
(* Line and Br: colors[NoLevel].Fprint(n.output,                           *)
(* Sprintf("%s", strings.Repeat("\n", count))).  strings.Repeat panics on  *)
(* a negative count.                                                       *)
(***************************************************************************)
\* A Repeat that does not look at the count.
Repeat_Once(str, count) == str

RECURSIVE Repeat(_, _)
Repeat(str, count) == IF count <= 0 THEN <<>> ELSE str \o Repeat(str, count - 1)

NegativeRepeat == <<"strings: negative Repeat count">>

LineRepeat(t) ==
  /\ At(t, {"Line"}, "repeat")
  /\ LET f == Top(t)
     IN  IF f.count < 0
         THEN /\ panicking' = [panicking EXCEPT ![t] = PanicOf(NegativeRepeat)]
              /\ UNCHANGED stack
         ELSE /\ stack' = SetTop(t, [f EXCEPT
                                       !.pc = "fprint",
                                       !.line = Sprintf(<<"%", "s">>,
                                                        <<Repeat(<<"\n">>, f.count)>>)])
              /\ UNCHANGED panicking
  /\ UNCHANGED <<heap, locked, sinks, registry, NoColor, recovered, hist, nfmt,
                 fatal>>

LineFrame(n, count) ==
  [Frame("Line", n, NoLevel, <<>>, <<>>) EXCEPT !.count = count]

\* func (n *Notifier) Br() { n.Line(1) }
BrCall(t) ==
  /\ At(t, {"Br"}, "call")
  /\ stack' = CallFrom(t, [Top(t) EXCEPT !.pc = "return"], LineFrame(Top(t).n, 1))
  /\ UNCHANGED <<heap, locked, sinks, registry, NoColor, panicking, recovered,
                 hist, nfmt, fatal>>

(***************************************************************************)
(* Success and Failure: n.Inlinef(level, n.f(icon, " ", format), args...). *)
(***************************************************************************)
\* n.f(args...): the arguments, each printed by fmt.Sprint, one after the
\* other.  The arguments are strings, which fmt.Sprint prints as they are.
RECURSIVE Notifier_f(_)
Notifier_f(args) ==
  IF args = <<>> THEN <<>> ELSE Head(args) \o Notifier_f(Tail(args))

\* A level for both that is the level of Success.
SugarLevel_AlwaysInfo(op) == InfoLevel

SugarLevel(op) == IF op = "Success" THEN InfoLevel ELSE ErrorLevel
SugarIcon(op) == IF op = "Success" THEN IconSuccess ELSE IconError

SugarCall(t) ==
  /\ At(t, {"Success", "Failure"}, "call")
  /\ LET f == Top(t)
     IN  stack' = CallFrom(t, [f EXCEPT !.pc = "return"],
                           Frame("Inlinef", f.n, SugarLevel(f.op),
                                 Notifier_f(<<SugarIcon(f.op), <<" ">>, f.format>>),
                                 f.args))
  /\ UNCHANGED <<heap, locked, sinks, registry, NoColor, panicking, recovered,
                 hist, nfmt, fatal>>

(***************************************************************************)
(* Panic: msg := Sprintf(f, a...); n.Inlinef(CriticalLevel, msg);          *)
(* panic(msg).                                                             *)
(***************************************************************************)
PanicFormat(t) ==
  /\ At(t, {"Panic"}, "format")
  /\ LET f == Top(t)
         msg == Sprintf(f.format, f.args)
     IN  stack' = CallFrom(t, [f EXCEPT !.pc = "panic", !.msg = msg],
                           Frame("Inlinef", f.n, CriticalLevel, msg, <<>>))
  /\ nfmt' = nfmt + 1
  /\ UNCHANGED <<heap, locked, sinks, registry, NoColor, panicking, recovered,
                 hist, fatal>>

PanicRaise(t) ==
  /\ At(t, {"Panic"}, "panic")
  /\ panicking' = [panicking EXCEPT ![t] = PanicOf(Top(t).msg)]
  /\ UNCHANGED <<heap, locked, sinks, registry, NoColor, stack, recovered,
                 hist, nfmt, fatal>>

(***************************************************************************)
(* A panic unwinds the stack of its goroutine: each frame runs its         *)
(* deferred Unlock, if it registered one, and is left.  The client of the  *)
(* goroutine recovers the value.                                           *)
(***************************************************************************)
\* An unwinding that runs no deferred call.
Unwind_NoDefer(t) ==
  /\ ~fatal
  /\ Busy(t)
  /\ panicking[t].on
  /\ UNCHANGED locked
  /\ stack' = Pop(t)
  /\ IF Len(stack[t]) = 1
     THEN /\ recovered' = [recovered EXCEPT ![t] =
                             Append(@, [call |-> Len(hist[t]),
                                        value |-> panicking[t].value])]
          /\ panicking' = [panicking EXCEPT ![t] = NoPanic]
     ELSE UNCHANGED <<recovered, panicking>>
  /\ UNCHANGED <<heap, sinks, registry, NoColor, hist, nfmt, fatal>>

Unwind(t) ==
  /\ ~fatal
  /\ Busy(t)
  /\ panicking[t].on
  /\ locked' = IF Top(t).deferred
               THEN [locked EXCEPT ![Top(t).n.mu] = FALSE]
               ELSE locked
  /\ stack' = Pop(t)
  /\ IF Len(stack[t]) = 1
     THEN /\ recovered' = [recovered EXCEPT ![t] =
                             Append(@, [call |-> Len(hist[t]),
                                        value |-> panicking[t].value])]
          /\ panicking' = [panicking EXCEPT ![t] = NoPanic]
     ELSE UNCHANGED <<recovered, panicking>>
  /\ UNCHANGED <<heap, sinks, registry, NoColor, hist, nfmt, fatal>>

(***************************************************************************)
(* Client calls.                                                           *)
(***************************************************************************)
CallNew(t, W, max) ==
  /\ ~fatal
  /\ ~Busy(t)
  /\ Cardinality(notifiers) < max
  /\ \E w \in W :
       /\ notifiers' = notifiers \cup {New(w)}
       /\ locked' = Append(locked, FALSE)
  /\ UNCHANGED <<Default, styled, sinks, registry, NoColor, stack, panicking,
                 recovered, hist, nfmt, fatal>>

CallWith(t, P, max) ==
  /\ ~fatal
  /\ ~Busy(t)
  /\ Cardinality(notifiers) < max
  /\ \E n \in notifiers, prefix \in P :
       /\ With(n, prefix) \notin notifiers
       /\ notifiers' = notifiers \cup {With(n, prefix)}
  /\ UNCHANGED <<Default, styled, locked, sinks, registry, NoColor, stack, panicking,
                 recovered, hist, nfmt, fatal>>

CallEmit(t, op, L, FA, max) ==
  /\ \E n \in notifiers, level \in L, fa \in FA :
       Call(t, Frame(op, n, level, fa[1], fa[2]), max)
  /\ UNCHANGED <<heap, locked, sinks, registry, NoColor, panicking, recovered,
                 nfmt, fatal>>

CallIf(t, L, FA, max) ==
  /\ \E n \in notifiers, cond \in BOOLEAN, level \in L, fa \in FA :
       Call(t, [Frame("If", n, level, fa[1], fa[2])
                  EXCEPT !.pc = "test", !.cond = cond], max)
  /\ UNCHANGED <<heap, locked, sinks, registry, NoColor, panicking, recovered,
                 nfmt, fatal>>

\* JSON(values...), JSONTitle(title, values...) or
\* JSONIndent(title, indent, values...).
CallJSON(t, TI, V, max) ==
  /\ \E n \in notifiers, values \in V :
       \/ Call(t, [Frame("JSON", n, NoLevel, <<>>, <<>>)
                     EXCEPT !.pc = "call", !.values = values], max)
       \/ \E ti \in TI :
            \/ Call(t, [Frame("JSONTitle", n, NoLevel, <<>>, <<>>)
                          EXCEPT !.pc = "call", !.title = ti[1],
                                 !.values = values], max)
            \/ Call(t, JSONFrame(n, ti[1], ti[2], values), max)
  /\ UNCHANGED <<heap, locked, sinks, registry, NoColor, panicking, recovered,
                 nfmt, fatal>>

\* SetSymbol(level, symbol) or SetColor(level, color).
CallSet(t, L, S, C, max) ==
  /\ \E level \in L :
       \/ \E symbol \in S :
            Call(t, [Frame("SetSymbol", Default, level, <<>>, <<>>)
                       EXCEPT !.symbol = symbol], max)
       \/ \E c \in C :
            Call(t, [Frame("SetColor", Default, level, <<>>, <<>>)
                       EXCEPT !.c = c], max)
  /\ UNCHANGED <<heap, locked, sinks, registry, NoColor, panicking, recovered,
                 nfmt, fatal>>

\* ResetSymbols() or ResetColors().
CallReset(t, max) ==
  /\ \E op \in ResetOps : Call(t, Frame(op, Default, NoLevel, <<>>, <<>>), max)
  /\ UNCHANGED <<heap, locked, sinks, registry, NoColor, panicking, recovered,
                 nfmt, fatal>>

CallPanic(t, FA, max) ==
  /\ \E n \in notifiers, fa \in FA :
       Call(t, [Frame("Panic", n, CriticalLevel, fa[1], fa[2])
                  EXCEPT !.pc = "format"], max)
  /\ UNCHANGED <<heap, locked, sinks, registry, NoColor, panicking, recovered,
                 nfmt, fatal>>

\* n.Func(level, fn), fn being a function that returns one of the strings R.
CallFunc(t, L, R, max) ==
  /\ \E n \in notifiers, level \in L, r \in R :
       Call(t, [Frame("Func", n, level, <<>>, <<>>) EXCEPT !.fn = r], max)
  /\ UNCHANGED <<heap, locked, sinks, registry, NoColor, panicking, recovered,
                 nfmt, fatal>>

\* n.Func(level, fn) or n.Format(formatter, format, args...), the supplied
\* function doing one of D and returning one of the strings R.
CallSupplied(t, L, R, D, max) ==
  /\ \E n \in notifiers, inner \in notifiers, r \in R, d \in D :
       \/ \E level \in L :
            Call(t, [Frame("Func", n, level, <<>>, <<>>)
                       EXCEPT !.fn = r, !.does = d, !.inner = inner], max)
       \/ Call(t, [Frame("Format", n, NoLevel, <<>>, <<>>)
                     EXCEPT !.fn = r, !.does = d, !.inner = inner], max)
  /\ UNCHANGED <<heap, locked, sinks, registry, NoColor, panicking, recovered,
                 nfmt, fatal>>

\* n.Line(count) or n.Br().
CallLine(t, N, max) ==
  /\ \E n \in notifiers :
       \/ \E count \in N : Call(t, LineFrame(n, count), max)
       \/ Call(t, [Frame("Br", n, NoLevel, <<>>, <<>>) EXCEPT !.pc = "call"], max)
  /\ UNCHANGED <<heap, locked, sinks, registry, NoColor, panicking, recovered,
                 nfmt, fatal>>

\* n.Success(format, args...) or n.Failure(format, args...).
CallSugar(t, FA, max) ==
  /\ \E n \in notifiers, op \in {"Success", "Failure"}, fa \in FA :
       Call(t, [Frame(op, n, NoLevel, fa[1], fa[2]) EXCEPT !.pc = "call"], max)
  /\ UNCHANGED <<heap, locked, sinks, registry, NoColor, panicking, recovered,
                 nfmt, fatal>>

(***************************************************************************)
(* The package-level functions: each calls the method of the same name on  *)
(* Default, which it reads when it is called.                              *)
(***************************************************************************)
\* A receiver that is the Notifier Default referred to at initialisation.
DefaultTarget_AtInit(d) == CHOOSE n \in notifiers : n.mu = 1 /\ ~n.derived

\* The receiver of "Default.Inlinef(level, f, a...)", d being the value of
\* the variable Default.
DefaultTarget(d) == d

\* The frame of a package-level call: the frame of the method call on the
\* receiver, with a note of the value Default had.
ViaDefault(op, level, format, args) ==
  [Frame(op, DefaultTarget(Default), level, format, args)
     EXCEPT !.pkg = TRUE, !.dflt = Default]

\* Default = New(w)
Rebind(t, W, max) ==
  /\ ~fatal
  /\ ~Busy(t)
  /\ Cardinality(notifiers) < max
  /\ \E w \in W :
       /\ Default' = New(w)
       /\ notifiers' = notifiers \cup {New(w)}
       /\ locked' = Append(locked, FALSE)
  /\ UNCHANGED <<styled, sinks, registry, NoColor, stack, panicking, recovered, hist,
                 nfmt, fatal>>

\* func With(prefix string) *Notifier { return Default.With(prefix) }
CallWithDefault(t, P, max) ==
  /\ ~fatal
  /\ ~Busy(t)
  /\ Cardinality(notifiers) < max
  /\ \E prefix \in P :
       /\ With(DefaultTarget(Default), prefix) \notin notifiers
       /\ notifiers' = notifiers \cup {With(DefaultTarget(Default), prefix)}
  /\ UNCHANGED <<Default, styled, locked, sinks, registry, NoColor, stack, panicking,
                 recovered, hist, nfmt, fatal>>

\* Inlinef, Logf, Printf, Success, Failure, Func, Line or Br of the package.
CallDefault(t, L, FA, R, N, max) ==
  /\ \/ \E op \in EmitOps, level \in L, fa \in FA :
            Call(t, ViaDefault(op, level, fa[1], fa[2]), max)
     \/ \E op \in {"Success", "Failure"}, fa \in FA :
            Call(t, [ViaDefault(op, NoLevel, fa[1], fa[2]) EXCEPT !.pc = "call"], max)
     \/ \E level \in L, r \in R :
            Call(t, [ViaDefault("Func", level, <<>>, <<>>) EXCEPT !.fn = r], max)
     \/ \E count \in N :
            Call(t, [ViaDefault("Line", NoLevel, <<>>, <<>>) EXCEPT !.count = count], max)
     \/ Call(t, [ViaDefault("Br", NoLevel, <<>>, <<>>) EXCEPT !.pc = "call"], max)
  /\ UNCHANGED <<heap, locked, sinks, registry, NoColor, panicking, recovered,
                 nfmt, fatal>>

(***************************************************************************)
(* The initial state: the package is initialised (Default = New(os.Stdout),*)
(* init() has reset both maps) and no goroutine has called anything.       *)
(***************************************************************************)
Init ==
  /\ notifiers = {Notifier(1, "stdout", <<>>, 1, FALSE, <<>>, <<>>)}
  /\ Default = Notifier(1, "stdout", <<>>, 1, FALSE, <<>>, <<>>)
  /\ locked = <<FALSE>>
  /\ sinks = [w \in Sinks |-> <<>>]
  /\ symbols = defaultSymbols
  /\ colors = defaultColors
  /\ mu = FALSE
  /\ NoColor \in BOOLEAN
  /\ stack = [t \in Threads |-> <<>>]
  /\ panicking = [t \in Threads |-> NoPanic]
  /\ recovered = [t \in Threads |-> <<>>]
  /\ hist = [t \in Threads |-> <<>>]
  /\ nfmt = 0
  /\ fatal = FALSE
  /\ arrays = <<>>
  /\ Values = <<>>

(***************************************************************************)
(* Goroutines sharing one family of Notifiers: With and Inlinef.           *)
(***************************************************************************)
FamilyPrefixes == {<<"a">>}
FamilyLevels == {InfoLevel}
FamilyFormats == {<< <<"m", "%", "s">>, <<<<"x">>>> >>}

NextFamily ==
  \E t \in Threads :
    \/ CallNew(t, {"buf"}, MaxFamily)
    \/ CallWith(t, FamilyPrefixes, MaxFamily)
    \/ CallEmit(t, "Inlinef", FamilyLevels, FamilyFormats, MaxCalls)
    \/ MuLock(t)
    \/ Compose(t)
    \/ SetWriter(t)
    \/ FprintLine(t)
    \/ UnsetWriter(t)
    \/ MuUnlock(t)

SpecFamily == Init /\ [][NextFamily]_vars

(***************************************************************************)
(* Goroutines calling If and Inlinef on one family.                        *)
(***************************************************************************)
NextIf ==
  \E t \in Threads :
    \/ CallWith(t, FamilyPrefixes, MaxFamily)
    \/ CallIf(t, FamilyLevels, FamilyFormats, MaxCalls)
    \/ CallEmit(t, "Inlinef", FamilyLevels, FamilyFormats, MaxCalls)
    \/ IfTest(t)
    \/ MuLock(t)
    \/ Compose(t)
    \/ SetWriter(t)
    \/ FprintLine(t)
    \/ UnsetWriter(t)
    \/ MuUnlock(t)
    \/ Return(t)

SpecIf == Init /\ [][NextIf]_vars

(***************************************************************************)
(* Goroutines writing structured output, with values the encoder accepts   *)
(* and values it rejects.  A goroutine that can take a step takes it in    *)
(* the end: the Go scheduler runs every runnable goroutine.                *)
(***************************************************************************)
JSONTitles == {<< <<>>, IndentNone >>, << <<"T">>, IndentSpace2 >>}
JSONValues == {<<>>, <<"map">>, <<"chan", "map">>, <<"map", "chan">>}

Step(t) ==
  \/ JSONWrap(t)
  \/ JSONTitleLine(t)
  \/ JSONValue(t)
  \/ JSONNewline(t)
  \/ JSONFinal(t)
  \/ MuLock(t)
  \/ Compose(t)
  \/ SetWriter(t)
  \/ FprintLine(t)
  \/ UnsetWriter(t)
  \/ MuUnlock(t)
  \/ Return(t)

NextJSON ==
  \E t \in Threads :
    \/ CallJSON(t, JSONTitles, JSONValues, MaxCalls)
    \/ Step(t)

SpecJSON == Init /\ [][NextJSON]_vars

FairJSON == SpecJSON /\ \A t \in Threads : WF_vars(Step(t))

(***************************************************************************)
(* Goroutines that configure the package while others emit.                *)
(***************************************************************************)
RegistryLevels == {InfoLevel, UnknownLevel}
RegistrySymbols == {<<"*">>}
RegistryColors == {"FgRed"}

NextRegistry ==
  \E t \in Threads :
    \/ CallSet(t, RegistryLevels, RegistrySymbols, RegistryColors, MaxCalls)
    \/ CallReset(t, MaxCalls)
    \/ CallEmit(t, "Inlinef", RegistryLevels, FamilyFormats, MaxCalls)
    \/ RegistryLock(t)
    \/ RegistryWrite(t)
    \/ RegistryRange(t)
    \/ RegistryUnlock(t)
    \/ MuLock(t)
    \/ Compose(t)
    \/ SetWriter(t)
    \/ FprintLine(t)
    \/ UnsetWriter(t)
    \/ MuUnlock(t)
    \/ Unwind(t)
    \/ RaceFatal(t)

SpecRegistry == Init /\ [][NextRegistry]_vars

(***************************************************************************)
(* One goroutine deriving Notifiers and emitting through them.             *)
(***************************************************************************)
WithPrefixes == {<<>>, <<"a">>, <<"b">>}
WithFormats == {<< <<"m">>, <<>> >>}

NextWith ==
  \E t \in {MainThread} :
    \/ CallWith(t, WithPrefixes, MaxNotifiers)
    \/ CallEmit(t, "Inlinef", {InfoLevel}, WithFormats, SeqCalls)
    \/ MuLock(t)
    \/ Compose(t)
    \/ SetWriter(t)
    \/ FprintLine(t)
    \/ UnsetWriter(t)
    \/ MuUnlock(t)

SpecWith == Init /\ [][NextWith]_vars

(***************************************************************************)
(* One goroutine calling Inlinef with any level, and Panic, with formats   *)
(* that match their arguments or do not.                                   *)
(***************************************************************************)
SeqPrefixes == {<<"a">>}
SeqLevels == BuiltinLevels \cup {UnknownLevel}
SeqFormats ==
  { << <<"m">>, <<>> >>,
    << <<"%", "s">>, << <<"x">> >> >>,
    << <<"%", "s">>, <<>> >>,
    << <<"m", "%">>, <<>> >> }
PanicFormats ==
  SeqFormats \cup
  { << <<"%", "%">>, <<>> >>,
    << <<"m">>, << <<"x">> >> >>,
    << <<"%", "d">>, << <<"x">> >> >>,
    << <<"%", "s">>, << <<"%", "s">> >> >> }

NextSeq ==
  \E t \in {MainThread} :
    \/ CallWith(t, SeqPrefixes, MaxFamily)
    \/ CallEmit(t, "Inlinef", SeqLevels, SeqFormats, SeqCalls)
    \/ MuLock(t)
    \/ Compose(t)
    \/ SetWriter(t)
    \/ FprintLine(t)
    \/ UnsetWriter(t)
    \/ MuUnlock(t)
    \/ Unwind(t)

SpecSeq == Init /\ [][NextSeq]_vars

NextPanic ==
  \E t \in {MainThread} :
    \/ CallWith(t, SeqPrefixes, MaxFamily)
    \/ CallPanic(t, PanicFormats, SeqCalls)
    \/ PanicFormat(t)
    \/ MuLock(t)
    \/ Compose(t)
    \/ SetWriter(t)
    \/ FprintLine(t)
    \/ UnsetWriter(t)
    \/ MuUnlock(t)
    \/ PanicRaise(t)
    \/ Unwind(t)

SpecPanic == Init /\ [][NextPanic]_vars

(***************************************************************************)
(* One goroutine configuring the package: setters, with levels inside and  *)
(* outside the enumeration, and resets.                                    *)
(***************************************************************************)
ResetLevels == {InfoLevel, NoLevel, UnknownLevel}
ResetSymbolArgs == {<<"*">>, <<>>}

NextReset ==
  \E t \in {MainThread} :
    \/ CallSet(t, ResetLevels, ResetSymbolArgs, RegistryColors, RegCalls)
    \/ CallReset(t, RegCalls)
    \/ RegistryLock(t)
    \/ RegistryWrite(t)
    \/ RegistryRange(t)
    \/ RegistryUnlock(t)

SpecReset == Init /\ [][NextReset]_vars

(***************************************************************************)
(* One goroutine writing structured output with values that all encode.    *)
(***************************************************************************)
EncodableValues == {<<>>, <<"map">>, <<"map", "list">>, <<"list", "map">>}
SeqTitles == {<< <<>>, IndentNone >>, << <<"T">>, IndentSpace2 >>,
              << <<"T">>, IndentNone >>}

NextJSONSeq ==
  \E t \in {MainThread} :
    \/ CallWith(t, SeqPrefixes, MaxFamily)
    \/ CallJSON(t, SeqTitles, EncodableValues, SeqCalls)
    \/ Step(t)

SpecJSONSeq == Init /\ [][NextJSONSeq]_vars

(***************************************************************************)
(* One goroutine rebinding Default and calling the package-level           *)
(* functions.                                                              *)
(***************************************************************************)
DefaultWriters == {"buf", Nil}
FuncResults == {<<"r">>}

NextDefault ==
  \E t \in {MainThread} :
    \/ Rebind(t, DefaultWriters, MaxFamily)
    \/ CallDefault(t, {InfoLevel}, WithFormats, FuncResults, {2}, MaxCalls)
    \/ SugarCall(t)
    \/ BrCall(t)
    \/ FuncInvoke(t)
    \/ LineRepeat(t)
    \/ MuLock(t)
    \/ Compose(t)
    \/ SetWriter(t)
    \/ FprintLine(t)
    \/ UnsetWriter(t)
    \/ MuUnlock(t)
    \/ Return(t)

SpecDefault == Init /\ [][NextDefault]_vars

(***************************************************************************)
(* Goroutines calling Func on one family, at a level that has a style and  *)
(* at one that has none.                                                   *)
(***************************************************************************)
FuncLevels == {InfoLevel, UnknownLevel}

NextFunc ==
  \E t \in Threads :
    \/ CallWith(t, FamilyPrefixes, MaxFamily)
    \/ CallFunc(t, FuncLevels, FuncResults, MaxCalls)
    \/ MuLock(t)
    \/ FuncInvoke(t)
    \/ SetWriter(t)
    \/ FprintLine(t)
    \/ UnsetWriter(t)
    \/ MuUnlock(t)
    \/ Unwind(t)

SpecFunc == Init /\ [][NextFunc]_vars

(***************************************************************************)
(* One goroutine calling Success and Failure.                              *)
(***************************************************************************)
NextSugar ==
  \E t \in {MainThread} :
    \/ CallWith(t, SeqPrefixes, MaxFamily)
    \/ CallSugar(t, SeqFormats, SeqCalls)
    \/ SugarCall(t)
    \/ MuLock(t)
    \/ Compose(t)
    \/ SetWriter(t)
    \/ FprintLine(t)
    \/ UnsetWriter(t)
    \/ MuUnlock(t)
    \/ Return(t)

SpecSugar == Init /\ [][NextSugar]_vars

(***************************************************************************)
(* One goroutine calling Logf with any level.                              *)
(***************************************************************************)
LogfLevels == {DebugLevel, WarnLevel, NoLevel, UnknownLevel}

NextLogf ==
  \E t \in {MainThread} :
    \/ CallWith(t, SeqPrefixes, MaxFamily)
    \/ CallEmit(t, "Logf", LogfLevels, SeqFormats, SeqCalls)
    \/ MuLock(t)
    \/ Compose(t)
    \/ SetWriter(t)
    \/ FprintLine(t)
    \/ UnsetWriter(t)
    \/ MuUnlock(t)
    \/ Unwind(t)

SpecLogf == Init /\ [][NextLogf]_vars

(***************************************************************************)
(* One goroutine calling Line, with any count, and Br.                     *)
(***************************************************************************)
LineCounts == {-1, 0, 1, 2}

NextLine ==
  \E t \in {MainThread} :
    \/ CallWith(t, SeqPrefixes, MaxFamily)
    \/ CallLine(t, LineCounts, SeqCalls)
    \/ BrCall(t)
    \/ MuLock(t)
    \/ LineRepeat(t)
    \/ SetWriter(t)
    \/ FprintLine(t)
    \/ UnsetWriter(t)
    \/ MuUnlock(t)
    \/ Return(t)
    \/ Unwind(t)

SpecLine == Init /\ [][NextLine]_vars

(***************************************************************************)
(* One goroutine that configures the package, makes and derives Notifiers  *)
(* and emits through them.                                                 *)
(***************************************************************************)
SharedLevels == {InfoLevel, ErrorLevel}

NextShared ==
  \E t \in {MainThread} :
    \/ CallNew(t, {"buf"}, MaxNotifiers)
    \/ CallWith(t, FamilyPrefixes, MaxNotifiers)
    \/ CallSet(t, SharedLevels, RegistrySymbols, RegistryColors, RegCalls)
    \/ CallReset(t, RegCalls)
    \/ CallEmit(t, "Inlinef", {InfoLevel}, WithFormats, RegCalls)
    \/ CallEmit(t, "Logf", {InfoLevel}, WithFormats, RegCalls)
    \/ RegistryLock(t)
    \/ RegistryWrite(t)
    \/ RegistryRangeAll(t)
    \/ RegistryUnlock(t)
    \/ MuLock(t)
    \/ Compose(t)
    \/ SetWriter(t)
    \/ FprintLine(t)
    \/ UnsetWriter(t)
    \/ MuUnlock(t)

SpecShared == Init /\ [][NextShared]_vars

(***************************************************************************)
(* One goroutine calling the operations with any argument values: any      *)
(* level, any count, any style, the nil style included.                    *)
(***************************************************************************)
AnyColors == {"FgRed", Nil}

NextAny ==
  \E t \in {MainThread} :
    \/ CallSet(t, {InfoLevel}, RegistrySymbols, AnyColors, MaxCalls)
    \/ CallEmit(t, "Inlinef", {InfoLevel, UnknownLevel}, WithFormats, MaxCalls)
    \/ CallFunc(t, {InfoLevel}, FuncResults, MaxCalls)
    \/ CallLine(t, LineCounts, MaxCalls)
    \/ CallPanic(t, WithFormats, MaxCalls)
    \/ RegistryLock(t)
    \/ RegistryWrite(t)
    \/ RegistryUnlock(t)
    \/ BrCall(t)
    \/ LineRepeat(t)
    \/ FuncInvoke(t)
    \/ PanicFormat(t)
    \/ PanicRaise(t)
    \/ MuLock(t)
    \/ Compose(t)
    \/ SetWriter(t)
    \/ FprintLine(t)
    \/ UnsetWriter(t)
    \/ MuUnlock(t)
    \/ Return(t)
    \/ Unwind(t)

SpecAny == Init /\ [][NextAny]_vars

(***************************************************************************)
(* Goroutines emitting through Notifiers made by separate New calls, the   *)
(* writer being the same or not.                                           *)
(***************************************************************************)
RootWriters == {Nil, "buf"}

NextRoots ==
  \E t \in Threads :
    \/ CallNew(t, RootWriters, MaxFamily)
    \/ CallEmit(t, "Inlinef", FamilyLevels, FamilyFormats, MaxCalls)
    \/ MuLock(t)
    \/ Compose(t)
    \/ SetWriter(t)
    \/ FprintLine(t)
    \/ UnsetWriter(t)
    \/ MuUnlock(t)

SpecRoots == Init /\ [][NextRoots]_vars

(***************************************************************************)
(* Goroutines writing titled structured output and Inline lines on one     *)
(* Notifier.                                                               *)
(***************************************************************************)
TitledOnly == {<< <<"T">>, IndentNone >>}
OneValue == {<<"map">>}

NextTitle ==
  \E t \in Threads :
    \/ CallJSON(t, TitledOnly, OneValue, MaxCalls)
    \/ CallEmit(t, "Inlinef", FamilyLevels, FamilyFormats, MaxCalls)
    \/ Step(t)

SpecTitle == Init /\ [][NextTitle]_vars

(***************************************************************************)
(* Goroutines that hold the one lock or the other: setters and resets      *)
(* beside Inline emissions on one Notifier.                                *)
(***************************************************************************)
OrderStep(t) ==
  \/ RegistryLock(t)
  \/ RegistryWrite(t)
  \/ RegistryRangeAll(t)
  \/ RegistryUnlock(t)
  \/ MuLock(t)
  \/ Compose(t)
  \/ SetWriter(t)
  \/ FprintLine(t)
  \/ UnsetWriter(t)
  \/ MuUnlock(t)

NextOrder ==
  \E t \in Threads :
    \/ CallSet(t, {InfoLevel}, RegistrySymbols, RegistryColors, MaxCalls)
    \/ CallReset(t, MaxCalls)
    \/ CallEmit(t, "Inlinef", {InfoLevel}, WithFormats, MaxCalls)
    \/ OrderStep(t)
    \/ RaceFatal(t)

SpecOrder == Init /\ [][NextOrder]_vars

(***************************************************************************)
(* One goroutine that derives Notifiers from Default with the package's    *)
(* With, rebinds Default and emits through any of them.                    *)
(***************************************************************************)
NextSnapshot ==
  \E t \in {MainThread} :
    \/ Rebind(t, DefaultWriters, MaxNotifiers)
    \/ CallWithDefault(t, WithPrefixes, MaxNotifiers)
    \/ CallEmit(t, "Inlinef", {InfoLevel}, WithFormats, SeqCalls)
    \/ MuLock(t)
    \/ Compose(t)
    \/ SetWriter(t)
    \/ FprintLine(t)
    \/ UnsetWriter(t)
    \/ MuUnlock(t)

SpecSnapshot == Init /\ [][NextSnapshot]_vars

(***************************************************************************)
(* Goroutines on the Default Notifier whose calls end by a panic or not:   *)
(* Func and Format with a function that returns or panics, Inlinef, each   *)
(* at a level that has a style or has none, and Panic.                     *)
(***************************************************************************)
NextRelease ==
  \E t \in Threads :
    \/ CallSupplied(t, FuncLevels, FuncResults, {"return", "panic"}, MaxCalls)
    \/ CallPanic(t, WithFormats, MaxCalls)
    \/ CallEmit(t, "Inlinef", FuncLevels, WithFormats, MaxCalls)
    \/ MuLock(t)
    \/ FuncInvoke(t)
    \/ PanicFormat(t)
    \/ PanicRaise(t)
    \/ Compose(t)
    \/ SetWriter(t)
    \/ FprintLine(t)
    \/ UnsetWriter(t)
    \/ MuUnlock(t)
    \/ Unwind(t)

SpecRelease == Init /\ [][NextRelease]_vars

(***************************************************************************)
(* Goroutines on two families, which the main goroutine builds, that call  *)
(* Func and Format with a function that emits through some Notifier, of    *)
(* the same family or of the other, before it returns its string.          *)
(***************************************************************************)
NextReentry ==
  \/ CallNew(MainThread, {"buf"}, MaxFamily)
  \/ CallWith(MainThread, FamilyPrefixes, MaxFamily)
  \/ \E t \in Threads :
    \/ CallSupplied(t, FamilyLevels, FuncResults, {"emit"}, SeqCalls)
    \/ MuLock(t)
    \/ FuncInvoke(t)
    \/ FuncResult(t)
    \/ Compose(t)
    \/ SetWriter(t)
    \/ FprintLine(t)
    \/ UnsetWriter(t)
    \/ MuUnlock(t)

SpecReentry == Init /\ [][NextReentry]_vars

(***************************************************************************)
(* Styled Values.  A Value is a string with a slice of color attributes;   *)
(* a slice is a window [array, len, cap] on a backing array.               *)
(***************************************************************************)
\* The capacities the allocator gives an array of color.Attribute (an int,
\* 8 bytes): its size classes of 8, 16, 24, 32, 48, 64, ... 128 bytes.
SizeClassCaps == {1, 2, 3, 4, 6, 8, 10, 12, 14, 16}

\* The capacity append gives the array it allocates when cap is too small
\* for the needed length (capacities below 256): twice cap, or the needed
\* length if that is more, rounded up to a size class.
GrowCap(cap, needed) ==
  LET newcap == IF needed > 2 * cap THEN needed ELSE 2 * cap
  IN  CHOOSE c \in SizeClassCaps :
        c >= newcap /\ \A d \in SizeClassCaps : d >= newcap => c <= d

\* An array of the capacity cap that starts with s; the rest is the zero
\* Attribute, color.Reset.
ArrayOf(s, cap) == s \o [i \in 1..(cap - Len(s)) |-> "Reset"]

\* v.attrs as it reads in the arrays A.
AttrsOf(A, v) == SubSeq(A[v.attrs.array], 1, v.attrs.len)

\* append(sl, attrs...) on the arrays A: the elements are stored behind
\* sl's length in sl's own array when its capacity allows, and in a new
\* array with a copy of sl otherwise.
append(A, sl, attrs) ==
  LET needed == sl.len + Len(attrs)
  IN  IF needed <= sl.cap
      THEN [arrays |-> [A EXCEPT ![sl.array] =
                          [i \in 1..sl.cap |->
                             IF i > sl.len /\ i <= needed
                             THEN attrs[i - sl.len] ELSE @[i]]],
            slice  |-> [sl EXCEPT !.len = needed]]
      ELSE [arrays |-> Append(A, ArrayOf(SubSeq(A[sl.array], 1, sl.len) \o attrs,
                                         GrowCap(sl.cap, needed))),
            slice  |-> [array |-> Len(A) + 1, len |-> needed,
                        cap |-> GrowCap(sl.cap, needed)]]

\* Value{v.value, append(v.attrs, attrs...)}, v being the i-th Value made.
Colorize(i, attrs) ==
  /\ arrays' = append(arrays, Values[i].attrs, attrs).arrays
  /\ Values' = Append(Values, [value |-> Values[i].value,
                               attrs |-> append(arrays, Values[i].attrs, attrs).slice])

\* Red(s) and the other constructors: Value{s, []color.Attribute{a}}.
CallColor(S, AT, max) ==
  /\ Len(Values) < max
  /\ \E s \in S, a \in AT :
       /\ arrays' = Append(arrays, <<a>>)
       /\ Values' = Append(Values, [value |-> s,
                                    attrs |-> [array |-> Len(arrays) + 1,
                                               len |-> 1, cap |-> 1]])
  /\ UNCHANGED <<notifiers, Default, locked, sinks, registry, NoColor, stack,
                 panicking, recovered, hist, nfmt, fatal>>

\* v.Colorize(attrs...)
CallColorize(AA, max) ==
  /\ Len(Values) < max
  /\ \E i \in 1..Len(Values), attrs \in AA : Colorize(i, attrs)
  /\ UNCHANGED <<notifiers, Default, locked, sinks, registry, NoColor, stack,
                 panicking, recovered, hist, nfmt, fatal>>

\* v.Bold() and the other chainable methods: v.Colorize(a).
CallChain(AT, max) ==
  /\ Len(Values) < max
  /\ \E i \in 1..Len(Values), a \in AT : Colorize(i, <<a>>)
  /\ UNCHANGED <<notifiers, Default, locked, sinks, registry, NoColor, stack,
                 panicking, recovered, hist, nfmt, fatal>>

ValueStrings == {<<"s">>}
ValueColors == {"FgRed"}
ChainStyles == {"Bold", "Italic", "Underline", "CrossedOut"}
ColorizeArgs == {<<>>, <<"Bold", "Italic">>}

(***************************************************************************)
(* A client that makes Values and derives Values from them.                *)
(***************************************************************************)
NextValue ==
  \/ CallColor(ValueStrings, ValueColors, MaxValues)
  \/ CallColorize(ColorizeArgs, MaxValues)
  \/ CallChain(ChainStyles, MaxValues)

SpecValue == Init /\ [][NextValue]_vars

(***************************************************************************)
(* What the claims speak of.                                               *)
(***************************************************************************)
RECURSIVE Flatten(_)
Flatten(chunks) ==
  IF chunks = <<>> THEN <<>> ELSE Head(chunks).data \o Flatten(Tail(chunks))

\* The bytes the writer w holds.
Content(w) == Flatten(sinks[w])

RECURSIVE Orders(_)
Orders(S) ==
  IF S = {} THEN {<<>>}
  ELSE UNION {{<<x>> \o o : o \in Orders(S \ {x})} : x \in S}

\* The client calls made so far, <<t, k>> being the k-th call of goroutine t.
Calls == {c \in Threads \X (1..MaxCalls + 1) : c[2] <= Len(hist[c[1]])}
CallOf(c) == hist[c[1]][c[2]]
AllReturned == \A t \in Threads : ~Busy(t)

\* "[" + prefix + "] " + message, or the message alone.
Prefixed(prefix, message) ==
  IF prefix = <<>> THEN message ELSE <<"[">> \o prefix \o <<"]", " ">> \o message

\* The line of an Inline emission: symbol + " " + prefixed message + "\n".
InlineText(symbol, prefix, message) ==
  symbol \o <<" ">> \o Prefixed(prefix, message) \o <<"\n">>

\* What the style renderer makes of text in style c.
Rendered(c, text) ==
  IF NoColor THEN text ELSE ColorFormat(c) \o text \o ColorUnformat(c)

\* What one Inlinef call writes when it runs alone, the registry being the
\* built-in one.
InlineAlone(f) ==
  Rendered(defaultColors[f.level],
           InlineText(defaultSymbols[f.level], f.n.prefix,
                      Sprintf(f.format, f.args)))

RECURSIVE ConcatAlone(_)
ConcatAlone(order) ==
  IF order = <<>> THEN <<>>
  ELSE InlineAlone(CallOf(Head(order))) \o ConcatAlone(Tail(order))

CallsOn(w) == {c \in Calls : CallOf(c).n.output = w}

\* Every call that wrote to the writer of Notifier n was made on n itself.
SharedAlone(n) == \A c \in CallsOn(n.output) : CallOf(c).n = n

\* C1: once all the concurrent Inlinef calls on one shared Notifier have
\* returned, its writer holds the lines of these calls, whole, in some
\* order: nothing split, merged or lost.
C1_CompleteLines ==
  AllReturned =>
    \A n \in notifiers :
      SharedAlone(n) =>
        \E order \in Orders(CallsOn(n.output)) :
          Content(n.output) = ConcatAlone(order)

\* Two goroutines have each completed an Inlinef on the same Notifier, and
\* the line of the second goroutine stands first.
C1_Witness ==
  /\ AllReturned
  /\ \E n \in notifiers :
       /\ \A t \in Threads : Len(hist[t]) = 1 /\ hist[t][1].n = n
       /\ Len(sinks[n.output]) > 0
       /\ sinks[n.output][1].by[1] # 1

\* Goroutine t is inside the critical section of an emit operation of the
\* family of root r: it has locked the family's mutex and not yet unlocked it.
InCritical(t, r) ==
  \E i \in 1..Len(stack[t]) : stack[t][i].deferred /\ stack[t][i].n.root = r

Roots == {n.root : n \in notifiers}

\* C2: the Notifiers of one family share one lock and one writer, and at
\* most one goroutine is inside a critical section of the family.
C2_FamilyExclusion ==
  /\ \A n1, n2 \in notifiers :
       n1.root = n2.root => n1.mu = n2.mu /\ n1.output = n2.output
  /\ \A r \in Roots : \A t1, t2 \in Threads :
       InCritical(t1, r) /\ InCritical(t2, r) => t1 = t2

\* One goroutine is inside the critical section through a derived Notifier
\* while another waits for the lock through the root of the same family.
C2_Witness ==
  \E t1, t2 \in Threads :
    /\ Busy(t1) /\ Top(t1).deferred /\ Top(t1).n.derived
    /\ Busy(t2) /\ Top(t2).pc = "lock" /\ ~Top(t2).n.derived
    /\ Top(t1).n.root = Top(t2).n.root

\* The bytes the client call c has written to the writer w.
WrittenBy(c, w) ==
  LET Mine(ch) == ch.by = c IN Flatten(SelectSeq(sinks[w], Mine))

\* The client call c has returned or has been left by a panic.
Completed(c) == c[2] < Len(hist[c[1]]) \/ ~Busy(c[1])

\* The client call c was left by a panic.
Panicked(c) ==
  \E i \in 1..Len(recovered[c[1]]) : recovered[c[1]][i].call = c[2]

Registered(level) == level \in DOMAIN symbols /\ level \in DOMAIN colors

\* C7: with colour disabled, an Inlinef at a registered level writes exactly
\* symbol + " " + message + "\n", or symbol + " [" + prefix + "] " + message
\* + "\n" when the Notifier has a prefix, and nothing else.
C7_InlineExact ==
  NoColor =>
    \A c \in Calls :
      LET f == CallOf(c)
          message == Sprintf(f.format, f.args)
      IN  Completed(c) /\ f.op = "Inlinef" /\ Registered(f.level) =>
            /\ WrittenBy(c, f.n.output) =
                 IF f.n.prefix = <<>>
                 THEN symbols[f.level] \o <<" ">> \o message \o <<"\n">>
                 ELSE symbols[f.level] \o <<" ", "[">> \o f.n.prefix
                      \o <<"]", " ">> \o message \o <<"\n">>
            /\ \A w \in Sinks \ {f.n.output} : WrittenBy(c, w) = <<>>

\* With colour disabled an Inlinef with a "%s" argument has returned on a
\* Notifier that has a prefix.
C7_Witness ==
  /\ NoColor
  /\ \E c \in Calls :
       /\ Completed(c)
       /\ CallOf(c).op = "Inlinef"
       /\ CallOf(c).n.prefix # <<>>
       /\ CallOf(c).level = WarnLevel
       /\ CallOf(c).args # <<>>

\* C5: an emit operation at a level with no entry in the symbol map or in
\* the style map does not panic and writes its line with an empty symbol
\* and undecorated.
C5_LookupMissSafe ==
  \A c \in Calls :
    LET f == CallOf(c) IN
      f.op \in EmitOps /\ ~Registered(f.level) =>
        /\ ~panicking[c[1]].on
        /\ ~Panicked(c)
        /\ Completed(c) =>
             WrittenBy(c, f.n.output) =
               InlineText(<<>>, f.n.prefix, Sprintf(f.format, f.args))

\* C8: p.With(c) has the prefix c when p has none and p.prefix + " " + c
\* otherwise, the empty c included; With("a") then With("b") gives "a b",
\* and an emission through that Notifier renders "[a b] <msg>".
C8_WithPrefix ==
  /\ \A n \in notifiers :
       n.derived =>
         n.prefix = IF n.from = <<>> THEN n.arg ELSE n.from \o <<" ">> \o n.arg
  /\ \A c \in Calls :
       LET f == CallOf(c) IN
         Completed(c) /\ f.n.derived /\ f.n.from = <<"a">> /\ f.n.arg = <<"b">> =>
           /\ f.n.prefix = <<"a", " ", "b">>
           /\ WrittenBy(c, f.n.output) =
                Rendered(colors[f.level],
                         symbols[f.level] \o <<" ", "[", "a", " ", "b", "]", " ">>
                         \o Sprintf(f.format, f.args) \o <<"\n">>)

\* An emission has returned on the Notifier made by With("a") and then
\* With("b").
C8_Witness ==
  \E c \in Calls :
    /\ Completed(c)
    /\ CallOf(c).n.derived
    /\ CallOf(c).n.from = <<"a">>
    /\ CallOf(c).n.arg = <<"b">>
    /\ sinks[CallOf(c).n.output] # <<>>

\* C10: Panic writes one Inline line at Critical level and panics, and the
\* message of the line is the message of the panic: the format with the
\* arguments substituted once.
C10_PanicSameMessage ==
  \A c \in Calls :
    LET f == CallOf(c) IN
      f.op = "Panic" =>
        \A i \in 1..Len(recovered[c[1]]) :
          LET r == recovered[c[1]][i] IN
            r.call = c[2] =>
              /\ r.value = Sprintf(f.format, f.args)
              /\ WrittenBy(c, f.n.output) =
                   Rendered(colors[CriticalLevel],
                            InlineText(symbols[CriticalLevel], f.n.prefix, r.value))

\* Goroutine t holds a mutex: a frame of its stack has locked one.
HoldsLock(t) == \E i \in 1..Len(stack[t]) : stack[t][i].deferred

\* C9: If(false, ...) writes nothing, formats nothing and takes no lock, so
\* it can return whoever holds the lock; If(true, ...) writes what Inlinef
\* writes for the same arguments.
C9_IfGuard ==
  /\ \A c \in Calls :
       LET f == CallOf(c) IN
         f.op = "If" =>
           IF f.cond
           THEN Completed(c) =>
                  /\ WrittenBy(c, f.n.output) = InlineAlone(f)
                  /\ \A w \in Sinks \ {f.n.output} : WrittenBy(c, w) = <<>>
           ELSE /\ \A w \in Sinks : WrittenBy(c, w) = <<>>
                /\ ~Completed(c) =>
                     /\ ~HoldsLock(c[1])
                     /\ Len(stack[c[1]]) = 1
                     /\ ENABLED IfTest(c[1])
  /\ nfmt <= Cardinality({c \in Calls : CallOf(c).op = "If" => CallOf(c).cond})

\* A goroutine is about to test the false condition of its If while another
\* goroutine holds the lock of the same Notifier.
C9_Witness ==
  \E t1, t2 \in Threads :
    /\ Busy(t1) /\ Top(t1).deferred
    /\ Busy(t2) /\ Top(t2).op = "If" /\ ~Top(t2).cond /\ Top(t2).pc = "test"
    /\ Top(t1).n = Top(t2).n

\* Goroutine t waits for a mutex that a frame of its own stack has locked:
\* no step of any goroutine will ever free it.
SelfBlocked(t) ==
  /\ Busy(t)
  /\ Top(t).pc = "lock"
  /\ \E i \in 1..Len(stack[t]) - 1 :
       stack[t][i].deferred /\ stack[t][i].n.mu = Top(t).n.mu

StructuredOps == {"JSON", "JSONTitle", "JSONIndent"}
Accepted(values) == {i \in 1..Len(values) : MarshalIndent(values[i], <<>>).err = <<>>}
ChunksBy(c, w) == LET Mine(ch) == ch.by = c IN SelectSeq(sinks[w], Mine)

\* C3: in a structured-output call a value that fails to encode yields an
\* Error line and the call goes on: it is never stuck behind the failure,
\* and when it has returned it has written every value that encodes, each
\* followed by a newline, and the trailing blank line.
C3_EncodingFailureContinues ==
  /\ \A t \in Threads : ~SelfBlocked(t)
  /\ \A c \in Calls :
       LET f == CallOf(c)
           chunks == ChunksBy(c, f.n.output)
           indent == IF f.op = "JSON" THEN IndentNone
                     ELSE IF f.op = "JSONTitle" THEN IndentSpace2 ELSE f.indent
           IsData(ch) == ch.data = MarshalIndent("map", indent).data
           IsError(ch) == SubSeq(ch.data, 1, 3) = symbols[ErrorLevel]
       IN  f.op \in StructuredOps /\ Completed(c) =>
             /\ Len(SelectSeq(chunks, IsData)) = Cardinality(Accepted(f.values))
             /\ Len(SelectSeq(chunks, IsError))
                  = Len(f.values) - Cardinality(Accepted(f.values))
             /\ chunks[Len(chunks)].data = <<"\n">>

\* C4: every emit operation that has been called returns in the end.
C4_EmitReturns == \A t \in Threads : Busy(t) ~> ~Busy(t)

\* C6: no emit operation reads the symbol map or the style map while a
\* setter or a reset is writing that map.
C6_RegistrySerialized ==
  \A map \in {"symbols", "colors"} : \A t, u \in Threads :
    ~(ReadsMap(t, map) /\ WritesMap(u, map))

\* The call the client of goroutine t made last.
LastCall(t) == hist[t][Len(hist[t])]

\* C11: after any sequence of SetSymbol calls, once ResetSymbols has
\* returned each of the eight built-in levels has its built-in symbol, and
\* likewise each has its built-in style once ResetColors has returned.
C11_ResetRestoresBuiltin ==
  \A t \in Threads :
    ~Busy(t) /\ hist[t] # <<>> =>
      /\ LastCall(t).op = "ResetSymbols" =>
           \A l \in BuiltinLevels : SymbolOf(l) = defaultSymbols[l]
      /\ LastCall(t).op = "ResetColors" =>
           \A l \in BuiltinLevels : ColorOf(l) = defaultColors[l]

\* ResetSymbols has returned after a SetSymbol that changed the symbol of a
\* built-in level.
C11_Witness ==
  \E t \in Threads :
    /\ ~Busy(t)
    /\ Len(hist[t]) >= 2
    /\ LastCall(t).op = "ResetSymbols"
    /\ \E k \in 1..Len(hist[t]) - 1 :
         /\ hist[t][k].op = "SetSymbol"
         /\ hist[t][k].level \in BuiltinLevels
         /\ hist[t][k].symbol # defaultSymbols[hist[t][k].level]

\* C12: once ResetSymbols (ResetColors) has returned the map equals the
\* built-in map: an entry a setter stored for a level outside the
\* enumeration is gone.
C12_ResetDiscardsAll ==
  \A t \in Threads :
    ~Busy(t) /\ hist[t] # <<>> =>
      /\ LastCall(t).op = "ResetSymbols" => symbols = defaultSymbols
      /\ LastCall(t).op = "ResetColors" => colors = defaultColors

\* The encodings of the values, each followed by one newline.
RECURSIVE Encodings(_, _)
Encodings(values, indent) ==
  IF values = <<>> THEN <<>>
  ELSE MarshalIndent(Head(values), indent).data \o <<"\n">>
       \o Encodings(Tail(values), indent)

TitleText(title) == title \o <<":", " ", "J", "S", "O", "N", " ", "U+21B4", "U+21B4">>

\* The title line if there is a title, the values in argument order, each
\* with its newline, and the final newline.
StructuredText(n, title, indent, values) ==
  (IF title # <<>>
   THEN Rendered(ColorOf(DebugLevel),
                 InlineText(SymbolOf(DebugLevel), n.prefix, TitleText(title)))
   ELSE <<>>)
  \o Encodings(values, indent) \o <<"\n">>

C14_DefaultDelegation ==
  \A c \in Calls :
    LET f == CallOf(c) IN
      f.pkg =>
        /\ f.n = f.dflt
        /\ \A w \in Sinks \ {f.dflt.output} : WrittenBy(c, w) = <<>>
        /\ Completed(c) => WrittenBy(c, f.dflt.output) # <<>>

\* A package-level call has written to the buffer of a rebound Default
\* after an earlier call has written to the standard output.
C14_Witness ==
  \E c \in Calls :
    /\ CallOf(c).pkg
    /\ Completed(c)
    /\ c[2] = 2
    /\ CallOf(c).dflt.output = "buf"
    /\ WrittenBy(c, "buf") # <<>>
    /\ WrittenBy(<<c[1], 1>>, "stdout") # <<>>

\* C15: Func invokes fn once, while it holds the family lock, and writes
\* the string fn returned through the style of the level; whenever fn has
\* been invoked the write follows.
C15_FuncDeferred ==
  /\ \A t \in Threads : \A i \in 1..Len(stack[t]) :
       LET fr == stack[t][i] IN
         fr.op = "Func" =>
           /\ fr.invoked <= 1
           /\ fr.invoked = 1 => fr.deferred /\ locked[fr.n.mu]
           /\ fr.pc \in {"print", "unset", "unlock"} => fr.invoked = 1
  /\ \A c \in Calls :
       LET f == CallOf(c) IN
         f.op = "Func" /\ Completed(c) =>
           /\ ~Panicked(c)
           /\ \E k \in 1..Len(ChunksBy(c, f.n.output)) :
                ChunksBy(c, f.n.output)[k].data = f.fn

\* C16: Success(format, args...) writes what Inlinef(InfoLevel, "U+2713 " +
\* format, args...) writes and Failure(format, args...) what
\* Inlinef(ErrorLevel, "U+2717 " + format, args...) writes, on the same
\* Notifier: glyph and space in front of the format, then the substitution.
C16_SuccessFailure ==
  \A c \in Calls :
    LET f == CallOf(c) IN
      Completed(c) =>
        /\ f.op = "Success" =>
             WrittenBy(c, f.n.output) =
               InlineAlone(Frame("Inlinef", f.n, InfoLevel,
                                 <<"U+2713", " ">> \o f.format, f.args))
        /\ f.op = "Failure" =>
             WrittenBy(c, f.n.output) =
               InlineAlone(Frame("Inlinef", f.n, ErrorLevel,
                                 <<"U+2717", " ">> \o f.format, f.args))
        /\ f.op \in {"Success", "Failure"} =>
             \A w \in Sinks \ {f.n.output} : WrittenBy(c, w) = <<>>

\* Failure has returned, called with a "%s" format and its argument on a
\* Notifier that has a prefix.
C16_Witness ==
  \E c \in Calls :
    /\ Completed(c)
    /\ CallOf(c).op = "Failure"
    /\ CallOf(c).args # <<>>
    /\ CallOf(c).n.prefix # <<>>
    /\ WrittenBy(c, CallOf(c).n.output) # <<>>

\* The line of a timestamped emission.
LogText(symbol, timestamp, prefix, message) ==
  symbol \o <<" ">> \o timestamp \o <<" ">> \o Prefixed(prefix, message)
  \o <<"\n">>

\* seq without the len elements that begin at place from.
Without(seq, from, len) ==
  SubSeq(seq, 1, from - 1) \o SubSeq(seq, from + len, Len(seq))

\* C17: a Logf at a registered level writes exactly symbol + " " +
\* timestamp + " " + prefixed message + "\n" through the style of the
\* level, the time being read while the lock is held; without the timestamp
\* and its space the line is the line Inlinef writes for the same arguments.
C17_LogfExact ==
  /\ \A c \in Calls :
       LET f == CallOf(c)
           message == Sprintf(f.format, f.args)
       IN  f.op = "Logf" /\ Completed(c) /\ Registered(f.level) =>
             \E ts \in Timestamps :
               /\ WrittenBy(c, f.n.output) =
                    Rendered(colors[f.level],
                             LogText(symbols[f.level], ts, f.n.prefix, message))
               /\ \E k \in 1..Len(ChunksBy(c, f.n.output)) :
                    LET line == ChunksBy(c, f.n.output)[k].data IN
                      /\ Len(line) > Len(symbols[f.level]) + Len(ts) + 2
                      /\ Without(line, Len(symbols[f.level]) + 2, Len(ts) + 1)
                           = InlineText(symbols[f.level], f.n.prefix, message)
  /\ \A t \in Threads : \A i \in 1..Len(stack[t]) :
       stack[t][i].op = "Logf" /\ stack[t][i].line # <<>> =>
         stack[t][i].deferred /\ locked[stack[t][i].n.mu]

\* Logf has returned, called at Warn level with a "%s" format and its
\* argument on a Notifier that has a prefix.
C17_Witness ==
  \E c \in Calls :
    /\ Completed(c)
    /\ CallOf(c).op = "Logf"
    /\ CallOf(c).level = WarnLevel
    /\ CallOf(c).args # <<>>
    /\ CallOf(c).n.prefix # <<>>
    /\ WrittenBy(c, CallOf(c).n.output) # <<>>

\* The number of newline characters in text.
Newlines(text) == Cardinality({i \in 1..Len(text) : text[i] = "\n"})

RECURSIVE SymbolAsOf(_, _, _)
SymbolAsOf(t, k, level) ==
  IF k <= 1 THEN defaultSymbols[level]
  ELSE LET prev == hist[t][k - 1] IN
         IF prev.op = "SetSymbol" /\ prev.level = level THEN prev.symbol
         ELSE IF prev.op = "ResetSymbols" THEN defaultSymbols[level]
         ELSE SymbolAsOf(t, k - 1, level)

\* C19: there is one registry for all Notifiers: an Inline or timestamped
\* emission that starts after SetSymbol(level, s) has returned renders s,
\* on whatever Notifier it is made, until the next SetSymbol for the level
\* or the next ResetSymbols.
C19_RegistryShared ==
  \A c \in Calls :
    LET f == CallOf(c)
        s == SymbolAsOf(c[1], c[2], f.level)
        message == Sprintf(f.format, f.args)
        lines == ChunksBy(c, f.n.output)
    IN  Completed(c) /\ f.op \in {"Inlinef", "Logf"} =>
          \E k \in 1..Len(lines) :
            IF f.op = "Inlinef"
            THEN lines[k].data = InlineText(s, f.n.prefix, message)
            ELSE \E ts \in Timestamps :
                   lines[k].data = LogText(s, ts, f.n.prefix, message)

\* An emission has returned on a Notifier that was derived from a Notifier
\* other than Default, after a SetSymbol for its level had returned.
C19_Witness ==
  \E c \in Calls :
    /\ Completed(c)
    /\ c[2] >= 2
    /\ CallOf(c).op \in {"Inlinef", "Logf"}
    /\ CallOf(c).n.derived
    /\ CallOf(c).n.root # Default.root
    /\ hist[c[1]][c[2] - 1].op = "SetSymbol"
    /\ hist[c[1]][c[2] - 1].level = CallOf(c).level
    /\ hist[c[1]][c[2] - 1].symbol # defaultSymbols[CallOf(c).level]

\* C20: no operation but Panic raises a panic, whatever its arguments and
\* whatever the setters have put in the registry.
C20_OnlyPanicAborts ==
  \A c \in Calls :
    CallOf(c).op # "Panic" =>
      /\ ~Panicked(c)
      /\ c[2] = Len(hist[c[1]]) => ~panicking[c[1]].on

\* C21: Notifiers made by separate New calls have different locks, whether
\* or not they have the same writer, so goroutines emitting through them do
\* not exclude each other: a goroutine waits for a lock only while a
\* goroutine is inside a critical section of the same family.
C21_RootsShareNoLock ==
  /\ \A n1, n2 \in notifiers : n1.root # n2.root => n1.mu # n2.mu
  /\ \A t \in Threads :
       Busy(t) /\ Top(t).pc = "lock" =>
         \/ ENABLED MuLock(t)
         \/ \E u \in Threads : InCritical(u, Top(t).n.root)

\* Two goroutines are inside the critical sections of two Notifiers made by
\* separate New calls on the same writer, and the writer has received a
\* write of one between two writes of the other.
C21_Witness ==
  \E t1, t2 \in Threads :
    /\ t1 # t2
    /\ Busy(t1) /\ Top(t1).deferred
    /\ Busy(t2) /\ Top(t2).deferred
    /\ Top(t1).n.root # Top(t2).n.root
    /\ Top(t1).n.output = Top(t2).n.output
    /\ LET w == sinks[Top(t1).n.output] IN
         \E i, j, k \in 1..Len(w) :
           /\ i < j /\ j < k
           /\ w[i].by[1] = t1 /\ w[j].by[1] = t2 /\ w[k].by[1] = t1

\* The places of the writer w where a write of the client call c stands.
Places(c, w) == {i \in 1..Len(sinks[w]) : sinks[w][i].by = c}

\* C22: a titled JSONIndent call emits its title line in a critical section
\* of its own: while the title line is written the call does not hold the
\* lock as JSONIndent, and between the title line and the body it holds no
\* lock at all, so another goroutine can emit in between.
C22_TitleSeparate ==
  \A t \in Threads :
    /\ \A i \in 1..Len(stack[t]) - 1 :
         stack[t][i].op = "JSONIndent" /\ stack[t][i + 1].op = "Inlinef" =>
           ~stack[t][i].deferred
    /\ Busy(t) /\ Top(t).op = "JSONIndent" /\ Top(t).pc = "lock" =>
         /\ ~HoldsLock(t)
         /\ Top(t).title # <<>> =>
              Places(<<t, Len(hist[t])>>, Top(t).n.output) # {}

\* The writer holds the title line of a JSONIndent call, then everything an
\* Inlinef call of another goroutine on the same Notifier has written, that
\* call having returned, and then the first body write of the JSONIndent
\* call.
C22_Witness ==
  \E c, d \in Calls :
    LET f == CallOf(c)
        w == f.n.output
        body == {i \in Places(c, w) :
                   sinks[w][i].data = MarshalIndent("map", f.indent).data}
    IN  /\ c[1] # d[1]
        /\ f.op \in StructuredOps /\ f.title # <<>>
        /\ CallOf(d).op = "Inlinef" /\ CallOf(d).n = f.n
        /\ Completed(d)
        /\ Places(d, w) # {}
        /\ body # {}
        /\ \A k \in body :
             /\ \E i \in Places(c, w) : i < k
             /\ \A j \in Places(d, w) :
                  /\ j < k
                  /\ \A i \in Places(c, w) : i < k => i < j

\* Goroutine t holds the write lock of the registry.
HoldsRegistry(t) ==
  \E i \in 1..Len(stack[t]) :
    stack[t][i].op \in RegistryOps /\ stack[t][i].pc \in {"write", "range", "unlock"}

\* Goroutine t waits for the registry lock, or for the lock of a Notifier.
WaitsRegistry(t) == Busy(t) /\ Top(t).op \in RegistryOps /\ Top(t).pc = "lock"
WaitsNotifier(t) == Busy(t) /\ Top(t).op \in LockOps /\ Top(t).pc = "lock"

\* C23: no goroutine waits for the lock of a Notifier while it holds the
\* registry lock, nor for the registry lock while it holds the lock of a
\* Notifier, and while the process lives some goroutine that is inside an
\* operation can take a step: setters, resets and emissions do not
\* deadlock.
C23_NoLockOrderHazard ==
  /\ \A t \in Threads :
       /\ HoldsRegistry(t) => ~WaitsNotifier(t) /\ ~HoldsLock(t)
       /\ HoldsLock(t) => ~WaitsRegistry(t)
  /\ ~fatal /\ (\E t \in Threads : Busy(t)) =>
       \E t \in Threads : ENABLED OrderStep(t)

\* One goroutine holds the registry lock while another, holding the lock of
\* a Notifier, is about to read the style map.
C23_Witness ==
  \E t, u \in Threads :
    /\ HoldsRegistry(t)
    /\ HoldsLock(u)
    /\ Top(u).pc = "fprint"

\* The Notifier the New call of family r returned.
RootOf(r) == CHOOSE n \in notifiers : n.root = r /\ ~n.derived

\* A step that derives leaves every Notifier there is as it is, the mutexes
\* and the writers as they are, and a Notifier never changes or goes.
DerivationStep ==
  /\ notifiers \subseteq notifiers'
  /\ notifiers' # notifiers /\ Default' = Default =>
       /\ sinks' = sinks
       /\ locked' = locked
       /\ stack' = stack

\* A derived Notifier has the writer and the lock of the Notifier it was
\* derived from, and the prefix computed from that one's prefix and the
\* argument; what is emitted through it goes to that writer, whatever
\* Default refers to by then.
DerivedKeeps ==
  /\ \A n \in notifiers :
       n.derived =>
         /\ n.output = RootOf(n.root).output
         /\ n.mu = RootOf(n.root).mu
         /\ n.prefix = WithPrefix(RootOf(n.root), n.arg)
  /\ \A c \in Calls :
       LET f == CallOf(c) IN
         /\ \A w \in Sinks \ {f.n.output} : WrittenBy(c, w) = <<>>
         /\ Completed(c) =>
              WrittenBy(c, f.n.output) =
                Rendered(colors[f.level],
                         InlineText(symbols[f.level], f.n.prefix,
                                    Sprintf(f.format, f.args)))

\* C24: With writes nothing and changes neither its receiver nor any lock
\* or writer, and the derived Notifier keeps writer, lock and prefix: one
\* derived by the package's With writes to the writer Default had then,
\* also after Default has been rebound.
C24_DerivationSnapshot == []DerivedKeeps /\ [][DerivationStep]_vars

\* An emission has returned on a Notifier derived by the package's With,
\* Default having been rebound to a Notifier with another writer since.
C24_Witness ==
  \E c \in Calls :
    /\ Completed(c)
    /\ CallOf(c).n.derived
    /\ CallOf(c).n.root # Default.root
    /\ CallOf(c).n.output # Default.output
    /\ CallOf(c).n.prefix # <<>>
    /\ WrittenBy(c, CallOf(c).n.output) # <<>>

\* An operation that has locked the mutex m is in progress.
HeldBy(m) ==
  \E t \in Threads : \E i \in 1..Len(stack[t]) :
    stack[t][i].deferred /\ stack[t][i].n.mu = m

\* C25: a lock is held only while an emit operation that locked it is in
\* progress: every way out of such an operation, the return and the panic
\* (of Panic, of the function given to Func or Format, of the rendering),
\* releases it, and a goroutine that waits for a lock no operation holds
\* can take it.
C25_LockReleased ==
  /\ \A m \in 1..Len(locked) : locked[m] => HeldBy(m)
  /\ \A t \in Threads : ~Busy(t) => ~HoldsLock(t)
  /\ \A t \in Threads :
       Busy(t) /\ Top(t).pc = "lock" /\ ~HeldBy(Top(t).n.mu) => ENABLED MuLock(t)

\* A call was left by the panic of the supplied function, and a later call
\* has taken the lock of the same family and is about to be left by the
\* panic of the rendering.
C25_Witness ==
  \E t, v \in Threads :
    /\ \E i \in 1..Len(recovered[t]) : recovered[t][i].value = SuppliedPanic
    /\ Busy(v) /\ Top(v).deferred /\ Top(v).pc = "fprint"
    /\ ColorOf(Top(v).level) = Nil

\* The supplied function of the Func or Format call of t is running.
InSupplied(t, i) ==
  /\ i \in 1..Len(stack[t])
  /\ stack[t][i].op \in {"Func", "Format"}
  /\ stack[t][i].pc \in {"invoke", "result"}

\* The supplied function of t has called an emit operation on a Notifier of
\* the family of its Func or Format call.
Reentered(t) ==
  \E i \in 1..Len(stack[t]) - 1 :
    /\ InSupplied(t, i)
    /\ stack[t][i + 1].n.mu = stack[t][i].n.mu

\* C26: the supplied function of Func and Format runs with the family lock
\* held; an emit operation it calls on a Notifier of the same family stays
\* at its Lock, which can never return, and from then on the goroutine makes
\* no step and the lock stays taken.
C26_SuppliedUnderLock ==
  /\ [](\A t \in Threads : \A i \in 1..Len(stack[t]) :
          InSupplied(t, i) => stack[t][i].deferred /\ locked[stack[t][i].n.mu])
  /\ [](\A t \in Threads :
          Reentered(t) => /\ SelfBlocked(t)
                          /\ Len(stack[t]) = 2
                          /\ ~ENABLED MuLock(t)
                          /\ ~ENABLED FuncResult(t)
                          /\ ~ENABLED MuUnlock(t))
  /\ [][\A t \in Threads :
          Reentered(t) => /\ stack'[t] = stack[t]
                          /\ locked'[stack[t][1].n.mu]]_vars

\* A goroutine waits inside its own Format call, in an emit operation that
\* the supplied function called on another Notifier of the family.
C26_Witness ==
  \E t \in Threads :
    /\ Reentered(t)
    /\ stack[t][1].op = "Format"
    /\ stack[t][2].n # stack[t][1].n
    /\ SelfBlocked(t)

\* C27: a step that derives a Value leaves the attribute list of every
\* Value made before it as it was.
C27_NonDestructive ==
  [][\A i \in 1..Len(Values) :
       AttrsOf(arrays', Values'[i]) = AttrsOf(arrays, Values[i])]_vars
====
